---- MODULE Spec2Model ----
(***************************************************************************)
(* rlox: the single-pass compiler (src/src/compiler.rs) with the bytecode  *)
(* data model (src/src/chunk.rs).  The compiler is a recursive-descent /   *)
(* Pratt parser that emits bytecode while parsing.  Every method of        *)
(* Compiler is an operator from a compiler record to a compiler record (or *)
(* to [c, v] when the method also returns a value); the loop of            *)
(* Compiler::compile is the state machine: one action per iteration.       *)
(*                                                                         *)
(* Indices keep the source's 0-based values (slot indices, pool indices,   *)
(* jump offsets); sequences are read through At/SetAt.                     *)
(* Option<T> is << >> (None) or <<x>> (Some(x)).                           *)
(***************************************************************************)
EXTENDS Integers, Sequences, FiniteSets, TLC

\* -------------------------------------------------------------- helpers
None == << >>
Some(x) == <<x>>
IsSome(o) == Len(o) = 1
Unwrap(o) == o[1]

At(s, i) == s[i + 1]
SetAt(s, i, x) == [s EXCEPT ![i + 1] = x]
Last(s) == s[Len(s)]
SetLast(s, x) == [s EXCEPT ![Len(s)] = x]
Front(s) == SubSeq(s, 1, Len(s) - 1)

RECURSIVE Position(_, _, _)
\* iter().position(|x| x == v), scanning from 0-based index i
Position(s, v, i) ==
  IF i >= Len(s) THEN None
  ELSE IF At(s, i) = v THEN Some(i)
  ELSE Position(s, v, i + 1)

RECURSIVE Repeat(_, _)
Repeat(x, n) == IF n <= 0 THEN << >> ELSE <<x>> \o Repeat(x, n - 1)

\* HashMap::insert
MapInsert(m, k, v) == [x \in (DOMAIN m) \cup {k} |-> IF x = k THEN v ELSE m[x]]
EmptyMap == [x \in {} |-> 0]

\* usize::max_value(), the placeholder operand of an unpatched jump.  Only
\* its identity matters (no patched offset can equal it); it is held at the
\* largest integer of TLC's integers.
UsizeMax == 2147483647

\* Let(e, [x \in Any |-> body]) reads `let x = e; body`: the value of body
\* with x standing for the value of e
Let(e, f) == f[e]

\* ------------------------------------------------------- scanner (external)
\* Token categories of the lexer, by lexeme.
Keywords == [lex \in {"and", "class", "else", "false", "for", "fun", "if", "nil",
                      "or", "print", "return", "super", "this", "true", "var",
                      "while", "await", "use"} |->
  CASE lex = "and" -> "TokenAnd"
    [] lex = "class" -> "TokenClass"
    [] lex = "else" -> "TokenElse"
    [] lex = "false" -> "TokenFalse"
    [] lex = "for" -> "TokenFor"
    [] lex = "fun" -> "TokenFun"
    [] lex = "if" -> "TokenIf"
    [] lex = "nil" -> "TokenNil"
    [] lex = "or" -> "TokenOr"
    [] lex = "print" -> "TokenPrint"
    [] lex = "return" -> "TokenReturn"
    [] lex = "super" -> "TokenSuper"
    [] lex = "this" -> "TokenThis"
    [] lex = "true" -> "TokenTrue"
    [] lex = "var" -> "TokenVar"
    [] lex = "while" -> "TokenWhile"
    [] lex = "await" -> "TokenAwait"
    [] lex = "use" -> "TokenUse"]

Punctuation == [lex \in {"(", ")", "{", "}", ",", ".", "-", "+", ";", "/", "*",
                         "!", "!=", "=", "==", ">", ">=", "<", "<=", "::"} |->
  CASE lex = "(" -> "TokenLeftParen"
    [] lex = ")" -> "TokenRightParen"
    [] lex = "{" -> "TokenLeftBrace"
    [] lex = "}" -> "TokenRightBrace"
    [] lex = "," -> "TokenComma"
    [] lex = "." -> "TokenDot"
    [] lex = "-" -> "TokenMinus"
    [] lex = "+" -> "TokenPlus"
    [] lex = ";" -> "TokenSemicolon"
    [] lex = "/" -> "TokenSlash"
    [] lex = "*" -> "TokenStar"
    [] lex = "!" -> "TokenBang"
    [] lex = "!=" -> "TokenBangEqual"
    [] lex = "=" -> "TokenEqual"
    [] lex = "==" -> "TokenEqualEqual"
    [] lex = ">" -> "TokenGreater"
    [] lex = ">=" -> "TokenGreaterEqual"
    [] lex = "<" -> "TokenLess"
    [] lex = "<=" -> "TokenLessEqual"
    [] lex = "::" -> "TokenModuleAccess"]

\* Number lexemes the sources use, with the f64 each parses to
\* (str::parse::<f64>); "1" and "1.0" are two lexemes of one value.
NumberLexemes == [lex \in {"0", "1", "2", "3", "4", "1.0"} |->
  CASE lex = "0" -> 0 [] lex = "1" -> 1 [] lex = "2" -> 2
    [] lex = "3" -> 3 [] lex = "4" -> 4 [] lex = "1.0" -> 1]

\* Lexemes the lexer rejects (an unexpected character): TokenError, whose
\* lexeme is the lexer's message.
ErrorLexemes == {"@"}

IsStringLexeme(lex) == Len(lex) >= 2 /\ SubSeq(lex, 1, 1) = "\""

TokenTypeOf(lex) ==
  IF lex \in DOMAIN Keywords THEN Keywords[lex]
  ELSE IF lex \in DOMAIN Punctuation THEN Punctuation[lex]
  ELSE IF lex \in DOMAIN NumberLexemes THEN "TokenNumber"
  ELSE IF lex \in ErrorLexemes THEN "TokenError"
  ELSE IF IsStringLexeme(lex) THEN "TokenString"
  ELSE "TokenIdentifier"

Token(type, lex) == [token_type |-> type, lexemme |-> lex, line_num |-> 1]
EOFToken == Token("TokenEOF", "")

\* Scanner::new / Scanner::scan_token: the next token of the source, and
\* end-of-file for ever once the source is used up.
Scanner_new(code) == [source |-> code, next |-> 0]
scan_token(sc) ==
  IF sc.next >= Len(sc.source)
  THEN [sc |-> sc, v |-> EOFToken]
  ELSE Let(At(sc.source, sc.next), [lex \in Any |->
       Let(TokenTypeOf(lex), [type \in Any |->
       [sc |-> [sc EXCEPT !.next = sc.next + 1],
        v |-> Token(type, IF type = "TokenError" THEN "Unexpected character" ELSE lex)]])])

\* ------------------------------------------------ resolver (spec section 4.1)
\* A local of a resolver frame: {name, declaration depth, initialized flag}.
Local(name, depth, initialized) ==
  [name |-> name, depth |-> depth, initialized |-> initialized]
\* An upvalue descriptor: origin enclosing-local (is_local) or
\* enclosing-upvalue, and the index in the enclosing function.
UpValue(is_local, index) == [is_local |-> is_local, index |-> index]

\* One frame per function being compiled.  Slot 0 is reserved by the calling
\* convention: the receiver `this` in methods and initializers.
ResolverNode(first_name) ==
  [upvalues |-> << >>,
   locals |-> <<Local(first_name, 0, TRUE)>>,
   scope_depth |-> 0]

Resolver_new == [stack |-> <<ResolverNode("")>>]

Resolver_push(r, fn_type) ==
  [r EXCEPT !.stack = Append(@,
     ResolverNode(IF fn_type \in {"Method", "Initializer"} THEN "this" ELSE ""))]

\* pop: drops the frame of the finished function, returns its upvalues
Resolver_pop(r) ==
  [r |-> [r EXCEPT !.stack = Front(@)], v |-> Last(r.stack).upvalues]

Resolver_is_global(r) == Last(r.stack).scope_depth = 0

Resolver_begin_scope(r) ==
  [r EXCEPT !.stack = SetLast(@, [Last(@) EXCEPT !.scope_depth = @ + 1])]

RECURSIVE TrailingDeeper(_, _)
\* how many locals at the end of the list were declared deeper than depth
TrailingDeeper(locals, depth) ==
  IF Len(locals) = 0 \/ Last(locals).depth <= depth THEN 0
  ELSE 1 + TrailingDeeper(Front(locals), depth)

\* end_scope: pops one lexical level, removes its locals, returns how many
Resolver_end_scope(r) ==
  Let(Last(r.stack), [node \in Any |->
  Let(node.scope_depth - 1, [depth \in Any |->
  Let(TrailingDeeper(node.locals, depth), [pops \in Any |->
  [r |-> [r EXCEPT !.stack = SetLast(@,
            [node EXCEPT !.scope_depth = depth,
                         !.locals = SubSeq(@, 1, Len(@) - pops)])],
   v |-> pops]])])])

\* ResolverNode::add_local: a new local starts uninitialized
Node_add_local(node, name) ==
  [node EXCEPT !.locals = Append(@, Local(name, node.scope_depth, FALSE))]

\* declare(name): fails on a name already in the same scope; at the global
\* level nothing is allocated
Resolver_declare_variable(r, name) ==
  Let(Last(r.stack), [node \in Any |->
  IF node.scope_depth = 0 THEN [r |-> r, v |-> TRUE]
  ELSE IF \E i \in 1..Len(node.locals) :
             /\ node.locals[i].name = name
             /\ node.locals[i].depth = node.scope_depth
  THEN [r |-> r, v |-> FALSE]
  ELSE [r |-> [r EXCEPT !.stack = SetLast(@, Node_add_local(node, name))],
        v |-> TRUE]])

\* mark_initialized: flips the most recently declared local to initialized
Resolver_mark_initialized(r) ==
  Let(Last(r.stack), [node \in Any |->
  IF node.scope_depth = 0 THEN r
  ELSE [r EXCEPT !.stack = SetLast(@,
          [node EXCEPT !.locals = SetLast(@, [Last(@) EXCEPT !.initialized = TRUE])])]])

RECURSIVE FindLocal(_, _, _)
\* innermost-first, most-recent-declaration-first: the 0-based slot of the
\* first match at or below slot i, or None
FindLocal(locals, name, i) ==
  IF i < 0 THEN None
  ELSE IF At(locals, i).name = name THEN Some(i)
  ELSE FindLocal(locals, name, i - 1)

\* resolve_local: Result<Option<usize>, ()> as <<"Ok", option>> or <<"Err">>
Resolver_resolve_local(r, name) ==
  Let(Last(r.stack).locals, [locals \in Any |->
  Let(FindLocal(locals, name, Len(locals) - 1), [found \in Any |->
  IF ~IsSome(found) THEN <<"Ok", None>>
  ELSE IF At(locals, Unwrap(found)).initialized THEN <<"Ok", found>>
  ELSE <<"Err">>])])

\* add_upvalue: reuses an existing descriptor, else appends; [node, v = index]
Node_add_upvalue(node, index, is_local) ==
  Let(UpValue(is_local, index), [uv \in Any |->
  Let(Position(node.upvalues, uv, 0), [pos \in Any |->
  IF IsSome(pos) THEN [node |-> node, v |-> Unwrap(pos)]
  ELSE [node |-> [node EXCEPT !.upvalues = Append(@, uv)],
        v |-> Len(node.upvalues)]])])

RECURSIVE recursive_resolve(_, _, _)
\* the upvalue of function child_index (0-based in the stack) for name
recursive_resolve(r, name, child_index) ==
  IF child_index = 0 THEN [r |-> r, v |-> None]
  ELSE
    Let(FindLocal(At(r.stack, child_index - 1).locals, name,
                   Len(At(r.stack, child_index - 1).locals) - 1), [found \in Any |->
    IF IsSome(found)
    THEN Let(Node_add_upvalue(At(r.stack, child_index), Unwrap(found), TRUE), [a \in Any |->
         [r |-> [r EXCEPT !.stack = SetAt(@, child_index, a.node)],
          v |-> Some(a.v)]])
    ELSE Let(recursive_resolve(r, name, child_index - 1), [up \in Any |->
         IF IsSome(up.v)
         THEN Let(Node_add_upvalue(At(up.r.stack, child_index),
                                   Unwrap(up.v), FALSE), [a \in Any |->
              [r |-> [up.r EXCEPT !.stack = SetAt(@, child_index, a.node)],
               v |-> Some(a.v)]])
         ELSE [r |-> up.r, v |-> None]])])

Resolver_resolve_upvalue(r, name) ==
  recursive_resolve(r, name, Len(r.stack) - 1)

\* ------------------------------------------------ parse rules (Pratt table)
PrecNone == 0
PrecAssignment == 1
PrecOr == 2
PrecAnd == 3
PrecEquality == 4
PrecComparison == 5
PrecTerm == 6
PrecFactor == 7
PrecUnary == 8
PrecCall == 9
PrecPrimary == 10

ParseRule(prefix, infix, precedence) ==
  [prefix |-> prefix, infix |-> infix, precedence |-> precedence]

get_rule(token_type) ==
  CASE token_type = "TokenLeftParen" -> ParseRule("Grouping", "Call", PrecCall)
    [] token_type = "TokenDot" -> ParseRule("None", "Dot", PrecCall)
    [] token_type = "TokenMinus" -> ParseRule("Unary", "Binary", PrecTerm)
    [] token_type = "TokenPlus" -> ParseRule("None", "Binary", PrecTerm)
    [] token_type \in {"TokenSlash", "TokenStar"} ->
         ParseRule("None", "Binary", PrecFactor)
    [] token_type = "TokenBang" -> ParseRule("Unary", "None", PrecNone)
    [] token_type \in {"TokenBangEqual", "TokenEqualEqual"} ->
         ParseRule("None", "Binary", PrecEquality)
    [] token_type \in {"TokenGreater", "TokenGreaterEqual", "TokenLess",
                       "TokenLessEqual"} ->
         ParseRule("None", "Binary", PrecComparison)
    [] token_type = "TokenIdentifier" -> ParseRule("Variable", "None", PrecNone)
    [] token_type = "TokenString" -> ParseRule("String", "None", PrecNone)
    [] token_type = "TokenNumber" -> ParseRule("Number", "None", PrecNone)
    [] token_type = "TokenAnd" -> ParseRule("None", "And", PrecAnd)
    [] token_type = "TokenOr" -> ParseRule("None", "Or", PrecOr)
    [] token_type \in {"TokenFalse", "TokenTrue", "TokenNil"} ->
         ParseRule("Literal", "None", PrecNone)
    [] token_type = "TokenThis" -> ParseRule("This", "None", PrecNone)
    [] token_type = "TokenSuper" -> ParseRule("Super", "None", PrecNone)
    [] OTHER -> ParseRule("None", "None", PrecNone)

next_precedence(rule) == rule.precedence + 1

\* --------------------------------------------------- chunk.rs data model
\* Instr {op_code, line_num}; an OpCode is <<name>>, <<name, a>> or
\* <<name, a, b>> with the operands of the variant.
Instr(op_code, line_num) == [op_code |-> op_code, line_num |-> line_num]

Chunk_new == [code |-> << >>]

FunctionChunk_new(name, arity, fn_type) ==
  [chunk |-> Chunk_new, name |-> name, arity |-> arity, fn_type |-> fn_type,
   upvalues |-> None]

set_upvalues(f, upvalues) == [f EXCEPT !.upvalues = Some(upvalues)]

ClassChunk_new(name) ==
  [name |-> name, methods |-> EmptyMap, superclass |-> None, has_init |-> FALSE]

\* ------------------------------------------------------ the file system
\* Module files `<name>.lox` of the working directory, by module name, as the
\* lexemes of their text.  "geom" has a class, "broken" does not compile; any
\* other name has no file, except those of Unreadable.
Files == [name \in {"m", "geom", "broken"} |->
  CASE name = "m" ->
         <<"var", "a", "=", "1", ";",
           "fun", "sq", "(", "x", ")", "{", "return", "x", "*", "x", ";", "}">>
    [] name = "geom" ->
         <<"class", "A", "{", "greet", "(", ")", "{", "return", "1", ";", "}", "}">>
    [] name = "broken" -> <<"var", ";">>]

\* Module names whose file can be opened and is no text that can be read
\* (read_to_string fails)
Unreadable == {"data"}

\* ------------------------------------------------------------ Compiler
\* The process has ended inside the compiler (exit(1) or a panic): nothing
\* runs after it, so every method leaves the record as it is.
Dead(c) == c.abort # ""
Exit(c, how) == [c EXCEPT !.abort = how]

\* History (not program state): every call of error(), the declarations of
\* each open scope, and what each closed scope popped.
Hist_new ==
  [error_calls |-> 0,       \* calls of error(), suppressed ones included
   raised |-> << >>,        \* the message of every call of error(), in order
   open |-> << >>,          \* per open scope: locals declared by var/fun/class
   closed |-> << >>,        \* per closed block/for scope: [pops, declared]
   panic_at_decl |-> FALSE, \* some declaration() began with panic_mode set
   decls |-> 0,             \* calls of declaration()
   after_error |-> 0,       \* declarations begun after had_error was set
   defs |-> << >>,          \* method definitions: [class, name_index, function]
   class_decls |-> << >>,   \* `class X < Y` clauses: [class, name,
                            \*   superclass_name, errors = calls of error() by
                            \*   the clause, inherited = Y's table when copied]
   own_classes |-> << >>,   \* indices of the classes declared in this unit
   names |-> << >>,         \* per open scope: the names declared in it
   declarations |-> << >>,  \* calls of declare_variable: [name, local, dup,
                            \*   errors, said, muted]
   initializing |-> << >>,  \* locals whose `var` initializer is being compiled
   popped |-> << >>,        \* per finished function: [function, parent,
                            \*   upvalues, body_len = code length at end_child]
   synced |-> << >>,        \* per return of synchronize: <<previous, current>>
   constant_requests |-> << >>,   \* every value handed to add_constant or
                                  \*   appended by an import, in order
   identifier_requests |-> << >>, \* every name handed to identifier_constant
                                  \*   or appended by an import, in order
   props |-> << >>,         \* per dot(): [name, name_index, can_assign,
                            \*   next = the token after the name, emitted =
                            \*   the instructions dot emitted]
   refs |-> << >>,          \* per named_variable that emitted: [name, by =
                            \*   "local", "upvalue" or "global" as the name
                            \*   resolved, index = the slot, upvalue index or
                            \*   pool index it resolved to, called = a `(`
                            \*   followed the bare name, op = the instruction
                            \*   emitted, function, at = where it was emitted]
   sites |-> << >>,         \* per function(): [function, fn_type, into = the
                            \*   function it returns into, emitted = what it
                            \*   emitted there after end_child]
   imports |-> << >>,       \* per merged import: [name, unit = the imported
                            \*   result, before = the importer's tables when
                            \*   the merge began, function = the current
                            \*   function, code = the length of its code then]
   stalled |-> FALSE,       \* some declaration() begun before end-of-file
                            \*   returned without having consumed a token
   supers |-> << >>,        \* per super_(): [class = current_class, superclass
                            \*   = the one recorded for it, well_formed = `.`
                            \*   and a name followed, name, name_index, raised
                            \*   = the messages it handed to error(), emitted]
   in_classes |-> << >>,    \* the class declarations whose body is open,
                            \*   innermost last
   thises |-> << >>,        \* per this(): [inside = a class body was open,
                            \*   innermost = the class of that body, declared
                            \*   = the classes declared so far, class =
                            \*   current_class, raised]
   entered |-> << >>,       \* per function() begun and not ended: [function,
                            \*   from = current_function, frames = resolver
                            \*   frames, parents = Len(parent_functions), all
                            \*   three before start_child, errors = calls of
                            \*   error() so far]
   children |-> << >>,      \* per function() ended: [function, fn_type, from,
                            \*   ended = current_function at end_child, back =
                            \*   current_function after it, frames_before,
                            \*   frames_after, parents_before, parents_after,
                            \*   erred = error() was called inside]
   calls |-> [start_child |-> 0, end_child |-> 0, pop |-> 0],
                            \* calls of start_child, end_child, resolver.pop
   uses |-> << >>,          \* per import_statement that named a module:
                            \*   [name, outcome = "open" or "read" (the file
                            \*   could not be), "dead" (the process ended in
                            \*   the module's compile), "none" or "some" (what
                            \*   that compile returned), unit_had_error,
                            \*   had_error, tokens, merged = the importer's
                            \*   flag, tokens taken and merged imports then]
   returns |-> << >>,       \* per return_statement: [fn_type = the current
                            \*   function's type, function, bare = `;`
                            \*   followed `return`, raised = the messages it
                            \*   handed to error(), emitted = the op codes it
                            \*   appended to the current chunk]
   reads |-> << >>]         \* calls of named_variable: [name, own, flagged,
                            \*   emitted, errors, said, muted]

current_chunk(c) == At(c.functions, c.current_function).chunk
current_fn(c) == At(c.functions, c.current_function)
current_fn_type(c) == At(c.functions, c.current_function).fn_type
current_class(c) == At(c.classes, Unwrap(c.current_class))

previous(c) == c.tokens[Len(c.tokens) - 1]
current(c) == c.tokens[Len(c.tokens)]

check(c, token_type) == current(c).token_type = token_type

\* what error() prints: "[Line n] Error", the place, ": message"
Diagnostic(token, message) ==
  [line_num |-> token.line_num,
   at |-> CASE token.token_type = "TokenEOF" -> " at end of file"
            [] token.token_type = "TokenError" -> ""
            [] OTHER -> " at '" \o token.lexemme \o "'",
   message |-> message]

error(c, message) ==
  IF Dead(c) THEN c
  ELSE
    Let([c EXCEPT !.h.error_calls = @ + 1,
                  !.h.raised = Append(@, message)], [c0 \in Any |->
    IF c0.panic_mode THEN c0
    ELSE Let([c0 EXCEPT !.had_error = TRUE, !.panic_mode = TRUE], [c1 \in Any |->
         IF c1.quiet_mode THEN c1
         ELSE [c1 EXCEPT !.stderr = Append(@, Diagnostic(previous(c1), message))]])])

RECURSIVE advance(_)
advance(c) ==
  IF Dead(c) THEN c
  ELSE
    Let(scan_token(c.scanner), [s \in Any |->
    Let([c EXCEPT !.scanner = s.sc, !.tokens = Append(@, s.v)], [c1 \in Any |->
    IF current(c1).token_type = "TokenError"
    THEN advance(error(c1, current(c1).lexemme))
    ELSE c1])])

consume(c, token_type, msg) ==
  Let(advance(c), [c1 \in Any |->
  IF previous(c1).token_type # token_type THEN error(c1, msg) ELSE c1])

match_cur(c, token_type) ==
  IF Dead(c) \/ ~check(c, token_type)
  THEN [c |-> c, v |-> FALSE]
  ELSE [c |-> advance(c), v |-> TRUE]

SyncKeywords ==
  {"TokenClass", "TokenFun", "TokenVar", "TokenFor", "TokenIf", "TokenWhile",
   "TokenPrint", "TokenReturn"}

RECURSIVE synchronize_loop(_)
synchronize_loop(c) ==
  IF Dead(c) \/ check(c, "TokenEOF") THEN c
  ELSE IF previous(c).token_type = "TokenSemicolon" THEN c
  ELSE IF current(c).token_type \in SyncKeywords THEN c
  ELSE synchronize_loop(advance(c))

\* a synchronize that would start the next declaration with a clean slate,
\* clearing had_error along with panic_mode
synchronize_clearing(c) ==
  IF Dead(c) THEN c
  ELSE Let(synchronize_loop([c EXCEPT !.panic_mode = FALSE,
                                      !.had_error = FALSE]), [c1 \in Any |->
       [c1 EXCEPT !.h.synced = Append(@,
          <<previous(c1).token_type, current(c1).token_type>>)]])

synchronize(c) ==
  IF Dead(c) THEN c
  ELSE Let(synchronize_loop([c EXCEPT !.panic_mode = FALSE]), [c1 \in Any |->
       [c1 EXCEPT !.h.synced = Append(@,
          <<previous(c1).token_type, current(c1).token_type>>)]])

emit_instr(c, op_code) ==
  IF Dead(c) THEN c
  ELSE [c EXCEPT !.functions[c.current_function + 1].chunk.code =
          Append(@, Instr(op_code, previous(c).line_num))]

RECURSIVE emit_instrs(_, _)
emit_instrs(c, op_codes) ==
  IF Len(op_codes) = 0 THEN c
  ELSE emit_instrs(emit_instr(c, Head(op_codes)), Tail(op_codes))

\* an add_constant that puts a new value in front of the pool
add_constant_front(c, value) ==
  IF Dead(c) THEN [c |-> c, v |-> 0]
  ELSE
    Let(Position(c.constants, value, 0), [pos \in Any |->
    IF IsSome(pos)
    THEN [c |-> [c EXCEPT !.h.constant_requests = Append(@, value)],
          v |-> Unwrap(pos)]
    ELSE [c |-> [c EXCEPT !.constants = <<value>> \o @,
                          !.h.constant_requests = Append(@, value)],
          v |-> 0]])

add_constant(c, value) ==
  IF Dead(c) THEN [c |-> c, v |-> 0]
  ELSE
    Let(Position(c.constants, value, 0), [pos \in Any |->
    IF IsSome(pos)
    THEN [c |-> [c EXCEPT !.h.constant_requests = Append(@, value)],
          v |-> Unwrap(pos)]
    ELSE [c |-> [c EXCEPT !.constants = Append(@, value),
                          !.h.constant_requests = Append(@, value)],
          v |-> Len(c.constants)]])

emit_constant(c, value) ==
  Let(add_constant(c, value), [a \in Any |->
  [c |-> emit_instr(a.c, <<"OpConstant", a.v>>), v |-> a.v]])

\* an emit_return that returns nil from every function
emit_return_nil(c) ==
  IF Dead(c) THEN c
  ELSE emit_instrs(c, << <<"OpNil">>, <<"OpReturn">> >>)

emit_return(c) ==
  IF Dead(c) THEN c
  ELSE IF current_fn_type(c) = "Initializer"
  THEN emit_instrs(c, << <<"OpGetLocal", 0>>, <<"OpReturn">> >>)
  ELSE emit_instrs(c, << <<"OpNil">>, <<"OpReturn">> >>)

emit_jump(c) ==
  Let(emit_instr(c, <<"OpJump", UsizeMax>>), [c1 \in Any |->
  [c |-> c1, v |-> Len(current_chunk(c1).code) - 1]])

emit_jif(c) ==
  Let(emit_instr(c, <<"OpJumpIfFalse", UsizeMax>>), [c1 \in Any |->
  [c |-> c1, v |-> Len(current_chunk(c1).code) - 1]])

\* a patch_jump that leaves the placeholder in the jump
patch_jump_skipped(c, index) == c

patch_jump(c, index) ==
  IF Dead(c) THEN c
  ELSE
    Let(Len(current_chunk(c).code) - index, [jump_amount \in Any |->
    Let(IF jump_amount > UsizeMax
        THEN error(c, "Too much code to jump over") ELSE c, [c1 \in Any |->
    Let(At(current_chunk(c1).code, index), [jump_instr \in Any |->
    IF index < 0 \/ index >= Len(current_chunk(c1).code)
    THEN Exit(c1, "panic")
    ELSE IF jump_instr.op_code[1] \in {"OpJump", "OpJumpIfFalse"}
    THEN [c1 EXCEPT !.functions[c1.current_function + 1].chunk.code =
            SetAt(@, index, [jump_instr EXCEPT !.op_code =
                               <<jump_instr.op_code[1], jump_amount>>])]
    ELSE Exit(c1, "panic")])])])

U16Max == 65535

emit_loop(c, loop_start) ==
  IF Dead(c) THEN c
  ELSE
    Let(Len(current_chunk(c).code) - loop_start, [offset \in Any |->
    Let(<<"OpLoop", offset>>, [loop_op \in Any |->
    Let(IF offset > U16Max THEN error(c, "Loop body too large") ELSE c, [c1 \in Any |->
    emit_instr(c1, loop_op)])])])

end_compilation(c) == emit_return(c)

\* Compiler::end_scope
end_scope(c) ==
  IF Dead(c) THEN c
  ELSE
    Let(Resolver_end_scope(c.resolver), [e \in Any |->
    Let([c EXCEPT !.resolver = e.r,
                  !.h.closed = Append(@, [pops |-> e.v, declared |-> Last(c.h.open)]),
                  !.h.open = Front(@),
                  !.h.names = Front(@)], [c1 \in Any |->
    emit_instrs(c1, Repeat(<<"OpPop">>, e.v))])])

\* what the call of error() between c0 and c1 wrote to stderr, "" if nothing
Said(c0, c1) ==
  IF Len(c1.stderr) > Len(c0.stderr) THEN Last(c1.stderr).message ELSE ""

\* history: a call of declare_variable for `name`, c0 before and c1 after;
\* dup says that the open scope already holds a declaration of the name
NoteDeclaration(c0, c1, name) ==
  Let(Len(c0.h.names) > 0, [local \in Any |->
  Let(local /\ name \in Last(c0.h.names), [dup \in Any |->
  [c1 EXCEPT
     !.h.names = IF local THEN SetLast(@, Last(@) \cup {name}) ELSE @,
     !.h.declarations = Append(@,
        [name |-> name, local |-> local, dup |-> dup,
         errors |-> c1.h.error_calls - c0.h.error_calls,
         said |-> Said(c0, c1),
         muted |-> c0.panic_mode \/ c0.quiet_mode])]])])

\* a declare_variable that does not look at what the resolver answered
declare_variable_unchecked(c) ==
  IF Dead(c) THEN c
  ELSE
    Let(previous(c).lexemme, [str_val \in Any |->
    Let(Resolver_declare_variable(c.resolver, str_val), [d \in Any |->
    NoteDeclaration(c, [c EXCEPT !.resolver = d.r], str_val)])])

\* Compiler::declare_variable
declare_variable(c) ==
  IF Dead(c) THEN c
  ELSE
    Let(previous(c).lexemme, [str_val \in Any |->
    Let(Resolver_declare_variable(c.resolver, str_val), [d \in Any |->
    Let([c EXCEPT !.resolver = d.r], [c1 \in Any |->
    Let(IF ~d.v
        THEN error(c1, "Variable with this name already declared in this scope")
        ELSE c1, [c2 \in Any |->
    NoteDeclaration(c, c2, str_val)])])])])

identifier_constant(c, str_val) ==
  IF Dead(c) THEN [c |-> c, v |-> 0]
  ELSE
    Let(Position(c.identifier_constants, str_val, 0), [pos \in Any |->
    IF IsSome(pos)
    THEN [c |-> [c EXCEPT !.h.identifier_requests = Append(@, str_val)],
          v |-> Unwrap(pos)]
    ELSE [c |-> [c EXCEPT !.identifier_constants = Append(@, str_val),
                          !.h.identifier_requests = Append(@, str_val)],
          v |-> Len(c.identifier_constants)]])

define_variable(c, global) ==
  IF Dead(c) THEN c
  ELSE IF Resolver_is_global(c.resolver)
  THEN emit_instr(c, <<"OpDefineGlobal", global>>)
  ELSE [c EXCEPT !.resolver = Resolver_mark_initialized(@)]

parse_variable(c, error_msg) ==
  Let(declare_variable(consume(c, "TokenIdentifier", error_msg)), [c1 \in Any |->
  IF Dead(c1) THEN [c |-> c1, v |-> 0]
  ELSE IF Resolver_is_global(c1.resolver)
  THEN identifier_constant(c1, previous(c1).lexemme)
  ELSE [c |-> c1, v |-> 0]])

module_access(c) ==
  Let(consume(c, "TokenIdentifier", "Expected identifier after '::'"), [c1 \in Any |->
  [c |-> c1, v |-> Some(previous(c1).lexemme)]])

\* ---------------------------------------------------------- expressions
RECURSIVE parse_precedence(_, _)
RECURSIVE declaration(_)
RECURSIVE statement(_)
RECURSIVE compile(_)

expression(c) == parse_precedence(c, PrecAssignment)

\* The two `loop { ..; if !self.match_cur(TokenComma) { break; } }` of the
\* compiler.  The state of a loop is [c, v, more]: v the count it keeps
\* (arg_count), more = the turn just made matched the comma.

\* a loop over the parameters that puts no limit on their number
param_step_unlimited(s) ==
  Let(parse_variable(s.c, "Expected parameter name"), [p \in Any |->
  Let(define_variable(p.c, p.v), [c1 \in Any |->
  Let([c1 EXCEPT !.functions[c1.current_function + 1].arity = @ + 1], [c2 \in Any |->
  Let(match_cur(c2, "TokenComma"), [m \in Any |->
  [c |-> m.c, v |-> s.v, more |-> m.v]])])])])

\* one turn of the loop over the parameters in function()
param_step(s) ==
  Let(parse_variable(s.c, "Expected parameter name"), [p \in Any |->
  Let(define_variable(p.c, p.v), [c1 \in Any |->
  Let([c1 EXCEPT !.functions[c1.current_function + 1].arity = @ + 1], [c2 \in Any |->
  Let(IF current_fn(c2).arity > 255
      THEN error(c2, "Cannot have more than 255 parameters") ELSE c2, [c3 \in Any |->
  Let(match_cur(c3, "TokenComma"), [m \in Any |->
  [c |-> m.c, v |-> s.v, more |-> m.v]])])])])])

\* one turn of the loop of argument_list, s.v arguments being parsed
argument_step(s) ==
  Let(expression(s.c), [c1 \in Any |->
  Let(IF s.v = 255
      THEN error(c1, "Cannot have more than 255 arguments") ELSE c1, [c2 \in Any |->
  Let(match_cur(c2, "TokenComma"), [m \in Any |->
  [c |-> m.c, v |-> s.v + 1, more |-> m.v]])])])

\* one turn of the loop `kind`; nothing runs once the process has ended
loop_step(kind, s) ==
  IF Dead(s.c) THEN [s EXCEPT !.more = FALSE]
  ELSE IF kind = "param" THEN param_step(s)
  ELSE argument_step(s)

RECURSIVE loop_steps(_, _, _)
\* at most k turns (k a power of two), until a turn ends the loop
loop_steps(kind, s, k) ==
  IF k = 1 THEN loop_step(kind, s)
  ELSE [h \in Any |-> IF h.more THEN loop_steps(kind, h, k \div 2) ELSE h][
        loop_steps(kind, s, k \div 2)]

RECURSIVE loop_turns(_, _, _)
\* the loop: turns until one ends it, taken k, 2k, 4k, ... at a time
loop_turns(kind, s, k) ==
  [h \in Any |-> IF h.more THEN loop_turns(kind, h, 2 * k) ELSE h][
   loop_steps(kind, s, k)]

\* the `loop` of argument_list, entered with arg_count arguments parsed
argument_loop(c, arg_count) ==
  [s \in Any |-> [c |-> s.c, v |-> s.v]][
   loop_turns("argument", [c |-> c, v |-> arg_count, more |-> TRUE], 1)]

argument_list(c) ==
  Let(IF ~check(c, "TokenRightParen") THEN argument_loop(c, 0)
      ELSE [c |-> c, v |-> 0], [a \in Any |->
  [c |-> consume(a.c, "TokenRightParen", "Expected ')' after function argument list"),
   v |-> a.v]])

call(c) ==
  Let(argument_list(c), [a \in Any |->
  emit_instr(a.c, <<"OpCall", a.v>>)])

\* a named_variable that lets the read of an uninitialized local pass
own_initializer_silent(c) == c

\* the Err arm of named_variable's match: the error, and return
own_initializer(c) ==
  error(c, "Cannot read local variable in its own initializer")

\* history: a call of named_variable for `name`, c0 before and c1 after;
\* own says that the `var` initializer of a local of that name is being
\* compiled, flagged that resolve_local gave Err
NoteRead(c0, c1, name, flagged) ==
  IF Dead(c1) THEN c1
  ELSE [c1 EXCEPT !.h.reads = Append(@,
          [name |-> name,
           own |-> \E i \in 1..Len(c0.h.initializing) : c0.h.initializing[i] = name,
           flagged |-> flagged,
           emitted |-> Len(current_chunk(c1).code) - Len(current_chunk(c0).code),
           errors |-> c1.h.error_calls - c0.h.error_calls,
           said |-> Said(c0, c1),
           muted |-> c0.panic_mode \/ c0.quiet_mode])]

\* self.resolver.resolve_upvalue(name): [c, v = Option<usize>]
resolve_upvalue(c, name) ==
  Let(Resolver_resolve_upvalue(c.resolver, name), [up \in Any |->
  [c |-> [c EXCEPT !.resolver = up.r], v |-> up.v]])

\* named_variable: the arms of `match self.resolver.resolve_local(name)`
\* when it answers Ok(local): [c, local_arg, param_name, by]; by (history)
\* tells which resolution gave local_arg
resolve_arm(c, name, local, is_mod_acc) ==
  IF local # None
  THEN [c |-> c, local_arg |-> local, param_name |-> name, by |-> "local"]
  ELSE IF ~is_mod_acc
  THEN [c |-> c, local_arg |-> None, param_name |-> name, by |-> ""]
  ELSE
    Let(module_access(c), [ma \in Any |->
    Let(resolve_upvalue(ma.c, name \o "::" \o Unwrap(ma.v)), [up \in Any |->
    [c |-> up.c, local_arg |-> up.v,
     param_name |-> name \o "::" \o Unwrap(ma.v),
     by |-> IF IsSome(up.v) THEN "upvalue" ELSE ""]])])

\* named_variable: (get_op, set_op) of a global, g being what
\* identifier_constant answered: [c, get_op, set_op]
global_ops(g) ==
  Let(match_cur(g.c, "TokenLeftParen"), [m \in Any |->
  IF m.v
  THEN Let(argument_list(m.c), [a \in Any |->
       [c |-> a.c, by |-> "global", index |-> g.v,
        get_op |-> <<"OpCallGlobal", g.v, a.v>>,
        set_op |-> <<"OpSetGlobal", g.v>>]])
  ELSE [c |-> m.c, by |-> "global", index |-> g.v,
        get_op |-> <<"OpGetGlobal", g.v>>,
        set_op |-> <<"OpSetGlobal", g.v>>]])

\* named_variable: (get_op, set_op) of a local, an upvalue or a global
variable_ops(arm) ==
  IF IsSome(arm.local_arg)
  THEN [c |-> arm.c, by |-> arm.by, index |-> Unwrap(arm.local_arg),
        get_op |-> <<"OpGetLocal", Unwrap(arm.local_arg)>>,
        set_op |-> <<"OpSetLocal", Unwrap(arm.local_arg)>>]
  ELSE
    Let(resolve_upvalue(arm.c, arm.param_name), [up \in Any |->
    IF IsSome(up.v)
    THEN [c |-> up.c, by |-> "upvalue", index |-> Unwrap(up.v),
          get_op |-> <<"OpGetUpvalue", Unwrap(up.v)>>,
          set_op |-> <<"OpSetUpvalue", Unwrap(up.v)>>]
    ELSE global_ops(identifier_constant(up.c, arm.param_name))])

named_variable(c, name, can_assign) ==
  IF Dead(c) THEN c
  ELSE
    Let(match_cur(c, "TokenModuleAccess"), [m0 \in Any |->
    Let(Resolver_resolve_local(m0.c.resolver, name), [res \in Any |->
    IF res[1] = "Err"
    THEN NoteRead(c, own_initializer(m0.c), name, TRUE)
    ELSE
      Let(resolve_arm(m0.c, name, res[2], m0.v), [arm \in Any |->
      Let(variable_ops(arm), [ops \in Any |->
      Let(match_cur(ops.c, "TokenEqual"), [me \in Any |->
      Let(IF me.v /\ can_assign
          THEN emit_instr(expression(me.c), ops.set_op)
          ELSE emit_instr(me.c, ops.get_op), [c1 \in Any |->
      Let(IF Dead(c1) THEN c1
          ELSE [c1 EXCEPT !.h.refs = Append(@,
                  [name |-> arm.param_name, by |-> ops.by, index |-> ops.index,
                   called |-> ~m0.v /\ check(m0.c, "TokenLeftParen"),
                   op |-> Last(current_chunk(c1).code).op_code,
                   function |-> c1.current_function,
                   at |-> Len(current_chunk(c1).code)])], [c2 \in Any |->
      NoteRead(c, c2, name, FALSE)])])])])])])])

variable(c, can_assign) == named_variable(c, previous(c).lexemme, can_assign)

\* history: a call of this(), c0 before and c1 after
NoteThis(c0, c1) ==
  IF Dead(c1) THEN c1
  ELSE [c1 EXCEPT !.h.thises = Append(@,
          [inside |-> Len(c0.h.in_classes) > 0,
           innermost |-> IF Len(c0.h.in_classes) > 0
                         THEN Some(Last(c0.h.in_classes)) ELSE None,
           declared |-> Len(c0.classes),
           class |-> c0.current_class,
           raised |-> SubSeq(c1.h.raised, Len(c0.h.raised) + 1, Len(c1.h.raised))])]

this(c) ==
  Let(IF c.current_class = None
      THEN error(c, "Cannot use keyword 'this' outside of a class") ELSE c, [c1 \in Any |->
  NoteThis(c, variable(c1, FALSE))])

\* history: a call of super_(), c0 before, c3 once it has consumed what
\* follows the keyword and c1 after, for the name whose pool index is
\* name_index; well_formed says that `.` and an identifier followed
NoteSuper(c0, c3, c1, name_index) ==
  IF Dead(c1) THEN c1
  ELSE [c1 EXCEPT !.h.supers = Append(@,
          [class |-> c0.current_class,
           superclass |-> IF c0.current_class = None THEN None
                          ELSE current_class(c0).superclass,
           well_formed |-> /\ Len(c3.tokens) = Len(c0.tokens) + 2
                           /\ current(c0).token_type = "TokenDot"
                           /\ previous(c3).token_type = "TokenIdentifier",
           name |-> previous(c3).lexemme,
           name_index |-> name_index,
           raised |-> SubSeq(c1.h.raised, Len(c0.h.raised) + 1, Len(c1.h.raised)),
           function |-> c1.current_function,
           emitted |-> SubSeq(current_chunk(c1).code,
                              Len(current_chunk(c0).code) + 1,
                              Len(current_chunk(c1).code))])]

\* a super_ that pushes the class the method is in, not its superclass
super_own_class(c) ==
  IF Dead(c) THEN c
  ELSE IF c.current_class = None
  THEN Let(error(c, "Cannot use keyword 'super' outside of a class"), [c1 \in Any |->
       NoteSuper(c, c1, c1, 0)])
  ELSE
    Let(current_class(c).superclass = None, [no_super \in Any |->
    Let(IF no_super
        THEN error(c, "Cannot use keyword 'super' in a class which does not inherit a class")
        ELSE c, [c1 \in Any |->
    Let(IF no_super THEN 0 ELSE Unwrap(c.current_class), [superclass_index \in Any |->
    Let(consume(c1, "TokenDot", "Expected '.' after 'super'"), [c2 \in Any |->
    Let(consume(c2, "TokenIdentifier", "Expected superclass method name"), [c3 \in Any |->
    Let(identifier_constant(c3, previous(c3).lexemme), [n \in Any |->
    Let(emit_constant(n.c, <<"LoxClass", superclass_index>>).c, [c4 \in Any |->
    Let(named_variable(c4, "this", FALSE), [c5 \in Any |->
    Let(emit_instr(c5, <<"OpGetSuper", n.v>>), [c6 \in Any |->
    NoteSuper(c, c3, c6, n.v)])])])])])])])])])

super_(c) ==
  IF Dead(c) THEN c
  ELSE IF c.current_class = None
  THEN Let(error(c, "Cannot use keyword 'super' outside of a class"), [c1 \in Any |->
       NoteSuper(c, c1, c1, 0)])
  ELSE
    Let(current_class(c).superclass = None, [no_super \in Any |->
    Let(IF no_super
        THEN error(c, "Cannot use keyword 'super' in a class which does not inherit a class")
        ELSE c, [c1 \in Any |->
    Let(IF no_super THEN 0 ELSE Unwrap(current_class(c).superclass), [superclass_index \in Any |->
    Let(consume(c1, "TokenDot", "Expected '.' after 'super'"), [c2 \in Any |->
    Let(consume(c2, "TokenIdentifier", "Expected superclass method name"), [c3 \in Any |->
    Let(identifier_constant(c3, previous(c3).lexemme), [n \in Any |->
    Let(emit_constant(n.c, <<"LoxClass", superclass_index>>).c, [c4 \in Any |->
    Let(named_variable(c4, "this", FALSE), [c5 \in Any |->
    Let(emit_instr(c5, <<"OpGetSuper", n.v>>), [c6 \in Any |->
    NoteSuper(c, c3, c6, n.v)])])])])])])])])])

grouping(c) ==
  Let(expression(c), [c1 \in Any |->
  consume(c1, "TokenRightParen", "Expected ')' after expression")])

unary(c) ==
  IF Dead(c) THEN c
  ELSE
    Let(parse_precedence(c, PrecUnary), [c1 \in Any |->
    Let(previous(c).token_type, [operator_type \in Any |->
    CASE operator_type = "TokenMinus" -> emit_instr(c1, <<"OpNegate">>)
      [] operator_type = "TokenBang" -> emit_instr(c1, <<"OpNot">>)
      [] OTHER -> c1])])

binary(c) ==
  IF Dead(c) THEN c
  ELSE
    Let(parse_precedence(c,
           next_precedence(get_rule(previous(c).token_type))), [c1 \in Any |->
    Let(previous(c).token_type, [operator_type \in Any |->
    CASE operator_type = "TokenPlus" -> emit_instr(c1, <<"OpAdd">>)
      [] operator_type = "TokenMinus" -> emit_instr(c1, <<"OpSubtract">>)
      [] operator_type = "TokenStar" -> emit_instr(c1, <<"OpMultiply">>)
      [] operator_type = "TokenSlash" -> emit_instr(c1, <<"OpDivide">>)
      [] operator_type = "TokenBangEqual" ->
           emit_instrs(c1, << <<"OpEqual">>, <<"OpNot">> >>)
      [] operator_type = "TokenEqualEqual" -> emit_instr(c1, <<"OpEqual">>)
      [] operator_type = "TokenGreater" -> emit_instr(c1, <<"OpGreater">>)
      [] operator_type = "TokenGreaterEqual" ->
           emit_instrs(c1, << <<"OpLess">>, <<"OpNot">> >>)
      [] operator_type = "TokenLess" -> emit_instr(c1, <<"OpLess">>)
      [] operator_type = "TokenLessEqual" ->
           emit_instrs(c1, << <<"OpGreater">>, <<"OpNot">> >>)
      [] OTHER -> c1])])

and_operator(c) ==
  Let(emit_jif(c), [j \in Any |->
  Let(parse_precedence(emit_instr(j.c, <<"OpPop">>), PrecAnd), [c2 \in Any |->
  patch_jump(c2, j.v)])])

or_operator(c) ==
  Let(emit_jif(c), [else_jump \in Any |->
  Let(emit_jump(else_jump.c), [end_jump \in Any |->
  Let(parse_precedence(
         emit_instr(patch_jump(end_jump.c, else_jump.v), <<"OpPop">>),
         PrecOr), [c3 \in Any |->
  patch_jump(c3, end_jump.v)])])])

number(c) ==
  IF Dead(c) THEN c
  ELSE IF previous(c).lexemme \in DOMAIN NumberLexemes
  THEN emit_constant(c, <<"Double", NumberLexemes[previous(c).lexemme]>>).c
  ELSE error(c, "Invalid number")

literal(c) ==
  IF Dead(c) THEN c
  ELSE CASE previous(c).token_type = "TokenFalse" -> emit_instr(c, <<"OpFalse">>)
         [] previous(c).token_type = "TokenTrue" -> emit_instr(c, <<"OpTrue">>)
         [] previous(c).token_type = "TokenNil" -> emit_instr(c, <<"OpNil">>)
         [] OTHER -> Exit(c, "panic")

string(c) ==
  IF Dead(c) THEN c
  ELSE
    Let(previous(c).lexemme, [str_val \in Any |->
    Let(SubSeq(str_val, 2, Len(str_val) - 1), [cleaned \in Any |->
    emit_constant(c, <<"LoxString", cleaned>>).c])])

\* a dot() that takes a following `=` for an assignment in every position
dot_assigning(c, can_assign) ==
  Let(consume(c, "TokenIdentifier", "Expected property name after '.'"), [c1 \in Any |->
  IF Dead(c1) THEN c1
  ELSE
    Let(identifier_constant(c1, previous(c1).lexemme), [n \in Any |->
    Let(match_cur(n.c, "TokenEqual"), [me \in Any |->
    Let(IF me.v
        THEN emit_instr(expression(me.c), <<"OpSetProperty", n.v>>)
        ELSE Let(match_cur(me.c, "TokenLeftParen"), [mp \in Any |->
             IF mp.v
             THEN Let(argument_list(mp.c), [a \in Any |->
                  emit_instr(a.c, <<"OpInvoke", n.v, a.v>>)])
             ELSE emit_instr(mp.c, <<"OpGetProperty", n.v>>)]), [c2 \in Any |->
    IF Dead(c2) THEN c2
    ELSE [c2 EXCEPT !.h.props = Append(@,
            [name |-> previous(c1).lexemme, name_index |-> n.v,
             can_assign |-> can_assign, next |-> current(n.c).token_type,
             emitted |-> SubSeq(current_chunk(c2).code,
                                Len(current_chunk(c1).code) + 1,
                                Len(current_chunk(c2).code))])]])])])])

dot(c, can_assign) ==
  Let(consume(c, "TokenIdentifier", "Expected property name after '.'"), [c1 \in Any |->
  IF Dead(c1) THEN c1
  ELSE
    Let(identifier_constant(c1, previous(c1).lexemme), [n \in Any |->
    Let(IF can_assign THEN match_cur(n.c, "TokenEqual")
        ELSE [c |-> n.c, v |-> FALSE], [me \in Any |->
    Let(IF me.v
        THEN emit_instr(expression(me.c), <<"OpSetProperty", n.v>>)
        ELSE Let(match_cur(me.c, "TokenLeftParen"), [mp \in Any |->
             IF mp.v
             THEN Let(argument_list(mp.c), [a \in Any |->
                  emit_instr(a.c, <<"OpInvoke", n.v, a.v>>)])
             ELSE emit_instr(mp.c, <<"OpGetProperty", n.v>>)]), [c2 \in Any |->
    IF Dead(c2) THEN c2
    ELSE [c2 EXCEPT !.h.props = Append(@,
            [name |-> previous(c1).lexemme, name_index |-> n.v,
             can_assign |-> can_assign, next |-> current(n.c).token_type,
             emitted |-> SubSeq(current_chunk(c2).code,
                                Len(current_chunk(c1).code) + 1,
                                Len(current_chunk(c2).code))])]])])])])

call_parse_fn(c, parse_fn, can_assign) ==
  CASE parse_fn = "None" -> error(c, "Expected expression")
    [] parse_fn = "Binary" -> binary(c)
    [] parse_fn = "Grouping" -> grouping(c)
    [] parse_fn = "Unary" -> unary(c)
    [] parse_fn = "Number" -> number(c)
    [] parse_fn = "Literal" -> literal(c)
    [] parse_fn = "String" -> string(c)
    [] parse_fn = "Variable" -> variable(c, can_assign)
    [] parse_fn = "And" -> and_operator(c)
    [] parse_fn = "Or" -> or_operator(c)
    [] parse_fn = "Call" -> call(c)
    [] parse_fn = "Dot" -> dot(c, can_assign)
    [] parse_fn = "This" -> this(c)
    [] parse_fn = "Super" -> super_(c)
    [] OTHER -> c

\* parse_precedence: the infix rule of the token just consumed
infix_rule(c, can_assign) ==
  call_parse_fn(c, get_rule(previous(c).token_type).infix, can_assign)

RECURSIVE infix_loop(_, _, _)
\* the `while prec <= get_rule(current).precedence` loop of parse_precedence
infix_loop(c, prec, can_assign) ==
  IF Dead(c) THEN c
  ELSE IF prec <= get_rule(current(c).token_type).precedence
  THEN Let(infix_rule(advance(c), can_assign), [c1 \in Any |->
       infix_loop(c1, prec, can_assign)])
  ELSE c

\* parse_precedence: the prefix rule of the token just consumed
prefix_rule(c, can_assign) ==
  call_parse_fn(c, get_rule(previous(c).token_type).prefix, can_assign)

parse_precedence(c, prec) ==
  IF Dead(c) THEN c
  ELSE
    Let(prefix_rule(advance(c), prec <= PrecAssignment), [c2 \in Any |->
    Let(infix_loop(c2, prec, prec <= PrecAssignment), [c3 \in Any |->
    IF Dead(c3) THEN c3
    ELSE IF prec <= PrecAssignment /\ previous(c3).token_type = "TokenEqual"
    THEN error(c3, "Invalid assignment target")
    ELSE c3])])

\* ------------------------------------------------ functions and classes
\* self.resolver.begin_scope(), with the history of the scope it opens
begin_scope(c) ==
  IF Dead(c) THEN c
  ELSE [c EXCEPT !.resolver = Resolver_begin_scope(@),
                 !.h.open = Append(@, 0), !.h.names = Append(@, {})]

\* history: the locals a var/fun/class declaration added to the open scope,
\* c0 being the compiler before the declaration's declare_variable and c1 after
NoteDeclared(c0, c1) ==
  IF Dead(c1) \/ Len(c1.h.open) = 0 THEN c1
  ELSE [c1 EXCEPT !.h.open = SetLast(@, Last(@)
          + Len(Last(c1.resolver.stack).locals) - Len(Last(c0.resolver.stack).locals))]

start_child(c, function_type) ==
  IF Dead(c) THEN [c |-> c, v |-> 0]
  ELSE
    Let(previous(c).lexemme, [function_name \in Any |->
    Let([c EXCEPT
           !.functions = Append(@, FunctionChunk_new(Some(function_name), 0, function_type)),
           !.resolver = Resolver_push(@, function_type),
           !.parent_functions = Append(@, c.current_function),
           !.current_function = Len(c.functions),
           !.h.calls.start_child = @ + 1,
           !.h.entered = Append(@,
              [function |-> Len(c.functions),
               from |-> c.current_function,
               frames |-> Len(c.resolver.stack),
               parents |-> Len(c.parent_functions),
               errors |-> c.h.error_calls])], [c1 \in Any |->
    [c |-> c1, v |-> Len(c1.functions) - 1]])])

\* an end_child that trusts every body to end with its own return
end_child_bare(c) ==
  IF Dead(c) THEN c
  ELSE IF Len(c.parent_functions) = 0 THEN Exit(c, "panic")
  ELSE [c EXCEPT !.current_function = Last(c.parent_functions),
                 !.parent_functions = Front(@)]

\* an end_child that pops parent_functions and stays in the child
end_child_staying(c) ==
  IF Dead(c) THEN c
  ELSE
    Let(current_chunk(c).code, [code \in Any |->
    Let(IF Len(code) = 0 \/ Last(code).op_code # <<"OpReturn">>
        THEN emit_return(c) ELSE c, [c1 \in Any |->
    IF Len(c1.parent_functions) = 0 THEN Exit(c1, "panic")
    ELSE [c1 EXCEPT !.parent_functions = Front(@),
                    !.h.calls.end_child = @ + 1]])])

end_child(c) ==
  IF Dead(c) THEN c
  ELSE
    Let(current_chunk(c).code, [code \in Any |->
    Let(IF Len(code) = 0 \/ Last(code).op_code # <<"OpReturn">>
        THEN emit_return(c) ELSE c, [c1 \in Any |->
    IF Len(c1.parent_functions) = 0 THEN Exit(c1, "panic")
    ELSE [c1 EXCEPT !.current_function = Last(c1.parent_functions),
                    !.parent_functions = Front(@),
                    !.h.calls.end_child = @ + 1]])])

RECURSIVE block_loop(_)
block_loop(c) ==
  IF Dead(c) \/ check(c, "TokenRightBrace") \/ check(c, "TokenEOF") THEN c
  ELSE [c1 \in Any |-> block_loop(c1)][declaration(c)]

block(c) ==
  [c1 \in Any |->
   consume(c1, "TokenRightBrace", "Expected '}' after block")][block_loop(c)]

\* the `loop` over the parameters in function()
param_loop(c) ==
  loop_turns("param", [c |-> c, v |-> 0, more |-> TRUE], 1).c

\* a function() that sets the popped list on the function whatever it holds
attach_upvalues_always(c, upvalues) ==
  [c EXCEPT !.functions[c.current_function + 1] = set_upvalues(@, upvalues)]

\* function(): the upvalues popped from the resolver are set on the
\* current function when there are any
attach_upvalues(c, upvalues) ==
  IF Len(upvalues) # 0
  THEN [c EXCEPT !.functions[c.current_function + 1] = set_upvalues(@, upvalues)]
  ELSE c

\* function(), from begin_scope to the `{` of the body
function_head(c) ==
  Let(begin_scope(c), [c1 \in Any |->
  Let(consume(c1, "TokenLeftParen", "Expected '(' after function name"), [c2 \in Any |->
  Let(IF ~check(c2, "TokenRightParen") THEN param_loop(c2) ELSE c2, [c3 \in Any |->
  Let(consume(c3, "TokenRightParen", "Expected ')' after function parameters"), [c4 \in Any |->
  consume(c4, "TokenLeftBrace", "Expected '{' before function body")])])])])

\* function(), from resolver.pop() to its end: [c, v = index]
function_end(c6, index, fun_type) ==
  IF Dead(c6) THEN [c |-> c6, v |-> index]
  ELSE
    Let(Resolver_pop(c6.resolver), [popped \in Any |->
    Let(popped.v, [upvalues \in Any |->
    Let(Len(upvalues) # 0, [has_upvalues \in Any |->
    Let([c6 EXCEPT !.resolver = popped.r,
                   !.h.calls.pop = @ + 1,
                   !.h.open = Front(@), !.h.names = Front(@)], [c7 \in Any |->
    Let(attach_upvalues(c7, upvalues), [c8 \in Any |->
    Let(end_child(c8), [e \in Any |->
    Let(IF Dead(e) THEN e
        ELSE [e EXCEPT !.h.popped = Append(@,
                [function |-> c8.current_function,
                 parent |-> e.current_function,
                 upvalues |-> upvalues,
                 body_len |-> Len(current_chunk(c8).code)]),
                !.h.entered = Front(@),
                !.h.children = Append(@,
                  [function |-> Last(c6.h.entered).function,
                   fn_type |-> fun_type,
                   from |-> Last(c6.h.entered).from,
                   ended |-> c8.current_function,
                   back |-> e.current_function,
                   frames_before |-> Last(c6.h.entered).frames,
                   frames_after |-> Len(e.resolver.stack),
                   parents_before |-> Last(c6.h.entered).parents,
                   parents_after |-> Len(e.parent_functions),
                   erred |-> e.h.error_calls > Last(c6.h.entered).errors])],
                [c9 \in Any |->
    Let(IF fun_type # "Method" /\ fun_type # "Initializer"
        THEN Let(emit_constant(c9, <<"LoxFunction", index>>).c, [k \in Any |->
             IF has_upvalues THEN emit_instr(k, <<"OpClosure">>) ELSE k])
        ELSE c9, [c10 \in Any |->
    [c |-> IF Dead(c10) THEN c10
           ELSE [c10 EXCEPT !.h.sites = Append(@,
                   [function |-> index, fn_type |-> fun_type,
                    into |-> c9.current_function,
                    emitted |-> SubSeq(current_chunk(c10).code,
                                       Len(current_chunk(c9).code) + 1,
                                       Len(current_chunk(c10).code))])],
     v |-> index]])])])])])])])])

\* function(), from start_child() to the end of the body: [c, v = index]
function_body(c, fun_type) ==
  [s \in Any |-> [c |-> block(function_head(s.c)), v |-> s.v]][
   start_child(c, fun_type)]

function(c, fun_type) ==
  IF Dead(c) THEN [c |-> c, v |-> 0]
  ELSE [b \in Any |-> function_end(b.c, b.v, fun_type)][function_body(c, fun_type)]

\* method(), up to the call of function(): [c, v = name_index, fun_type]
method_name(c) ==
  Let(consume(c, "TokenIdentifier", "Expected method name"), [c1 \in Any |->
  Let(previous(c1).lexemme, [name \in Any |->
  Let(identifier_constant(c1, name), [n \in Any |->
  IF name = "init"
  THEN [c |-> [n.c EXCEPT !.classes[Unwrap(n.c.current_class) + 1].has_init = TRUE],
        v |-> n.v, fun_type |-> "Initializer"]
  ELSE [c |-> n.c, v |-> n.v, fun_type |-> "Method"]])])])

method(c) ==
  IF Dead(c) THEN c
  ELSE
    Let(method_name(c), [n \in Any |->
    Let(function(n.c, n.fun_type), [f \in Any |->
    IF Dead(f.c) THEN f.c
    ELSE [f.c EXCEPT
            !.classes[Unwrap(f.c.current_class) + 1].methods = MapInsert(@, n.v, f.v),
            !.h.defs = Append(@, [class |-> Unwrap(f.c.current_class),
                                  name_index |-> n.v, function |-> f.v])]])])

RECURSIVE FirstNamed(_, _, _)
\* a superclass search that stops at the first class of the name: the
\* first index below n whose class is called `name`
FirstNamed(classes, name, n) ==
  IF n = 0 THEN None
  ELSE Let(FirstNamed(classes, name, n - 1), [below \in Any |->
       IF IsSome(below) THEN below
       ELSE IF At(classes, n - 1).name = name THEN Some(n - 1) ELSE None])

RECURSIVE LastNamed(_, _, _)
\* the `for (i, class_def) in classes`: the last i below n with that name
LastNamed(classes, name, n) ==
  IF n = 0 THEN None
  ELSE IF At(classes, n - 1).name = name THEN Some(n - 1)
  ELSE LastNamed(classes, name, n - 1)

\* the copy of the superclass's method table into the current class
Inherit(c, i) ==
  Let(At(c.classes, i), [superclass \in Any |->
  Let(Unwrap(c.current_class), [cur \in Any |->
  Let([k \in (DOMAIN At(c.classes, cur).methods) \cup (DOMAIN superclass.methods) |->
         IF k \in DOMAIN superclass.methods THEN superclass.methods[k]
         ELSE At(c.classes, cur).methods[k]], [merged \in Any |->
  Let(\E k \in DOMAIN superclass.methods :
         At(c.identifier_constants, k) = "init", [inherits_init \in Any |->
  IF \E k \in DOMAIN superclass.methods : k >= Len(c.identifier_constants)
  THEN Exit(c, "panic")
  ELSE [c EXCEPT !.classes[cur + 1].methods = merged,
                 !.classes[cur + 1].has_init = @ \/ inherits_init,
                 !.classes[cur + 1].superclass = Some(i)]])])])])

RECURSIVE class_body(_)
class_body(c) ==
  IF Dead(c) \/ check(c, "TokenRightBrace") \/ check(c, "TokenEOF") THEN c
  ELSE [c1 \in Any |-> class_body(c1)][method(c)]

\* class_declaration, up to the `{` of the class body
class_head(c) ==
    Let(consume(c, "TokenIdentifier", "Expected class name after keyword 'class'"), [c1 \in Any |->
    Let(previous(c1).lexemme, [name \in Any |->
    Let(identifier_constant(c1, name), [n \in Any |->
    Let(n.v, [name_index \in Any |->
    Let(NoteDeclared(n.c, declare_variable(n.c)), [c2 \in Any |->
    Let(Len(c2.classes), [class_index \in Any |->
    Let([c2 EXCEPT !.classes = Append(@, ClassChunk_new(name)),
                   !.current_class = Some(class_index),
                   !.h.own_classes = Append(@, class_index),
                   !.h.in_classes = Append(@, class_index)], [c3 \in Any |->
    Let(define_variable(emit_instr(c3, <<"OpClass", class_index>>), name_index), [c4 \in Any |->
    Let(match_cur(c4, "TokenLess"), [m \in Any |->
    Let(IF m.v
        THEN
          Let(consume(m.c, "TokenIdentifier", "Expected superclass name"), [d0 \in Any |->
          Let(previous(d0).lexemme, [superclass_name \in Any |->
          Let(LastNamed(d0.classes, superclass_name, Len(d0.classes)), [superclass_index \in Any |->
          Let(IF superclass_index = d0.current_class
              THEN error(d0, "A class cannot inherit from itself") ELSE d0, [d2 \in Any |->
          Let(IF IsSome(superclass_index)
              THEN Inherit(d2, Unwrap(superclass_index))
              ELSE error(d2, "'" \o superclass_name \o "' is not a valid superclass"), [d3 \in Any |->
          [d3 EXCEPT !.h.class_decls = Append(@,
             [class |-> class_index, name |-> name,
              superclass_name |-> superclass_name,
              errors |-> d3.h.error_calls - d0.h.error_calls,
              inherited |-> IF IsSome(superclass_index)
                            THEN At(d0.classes, Unwrap(superclass_index)).methods
                            ELSE EmptyMap])]])])])])])
        ELSE m.c, [c5 \in Any |->
    consume(c5, "TokenLeftBrace", "Expected '{' before class body")])])])])])])])])])])

\* a class_declaration that leaves current_class on the class it declared
class_declaration_unrestored(c) ==
  IF Dead(c) THEN c
  ELSE
    Let(class_body(class_head(c)), [c7 \in Any |->
    Let(consume(c7, "TokenRightBrace", "Expected '}' after class body"), [c8 \in Any |->
    IF Dead(c8) THEN c8
    ELSE [c8 EXCEPT !.h.in_classes = Front(@)]])])

class_declaration(c) ==
  IF Dead(c) THEN c
  ELSE
    Let(class_body(class_head(c)), [c7 \in Any |->
    Let(consume(c7, "TokenRightBrace", "Expected '}' after class body"), [c8 \in Any |->
    IF Dead(c8) THEN c8
    ELSE [c8 EXCEPT !.current_class = c.current_class,
                    !.h.in_classes = Front(@)]])])

\* self.resolver.mark_initialized()
mark_initialized(c) ==
  IF Dead(c) THEN c ELSE [c EXCEPT !.resolver = Resolver_mark_initialized(@)]

\* fun_declaration, up to the end of the function: [c, v = function index,
\* global = the index parse_variable returned]
function_named(c) ==
  [f \in Any |-> [c |-> f[2].c, v |-> f[2].v, global |-> f[1].v]][
   [p \in Any |-> <<p, function(mark_initialized(NoteDeclared(c, p.c)), "Function")>>][
    parse_variable(c, "Expected function name")]]

fun_declaration(c) ==
  [f \in Any |-> define_variable(f.c, f.global)][function_named(c)]

\* var_declaration, up to the initializer: [c, v = global, begun = a local
\* has been declared and its initializer begins (history), initializer =
\* there is one]
var_head(c) ==
  Let(parse_variable(c, "Expected variable name"), [p \in Any |->
  Let(NoteDeclared(c, p.c), [c1 \in Any |->
  Let(/\ ~Dead(c1)
      /\ Last(c1.h.declarations).local
      /\ ~Last(c1.h.declarations).dup, [begun \in Any |->
  Let(match_cur(IF begun
                THEN [c1 EXCEPT !.h.initializing =
                        Append(@, Last(c1.h.declarations).name)]
                ELSE c1,
                "TokenEqual"), [m \in Any |->
  [c |-> m.c, v |-> p.v, begun |-> begun, initializer |-> m.v]])])])])

var_declaration(c) ==
  Let(var_head(c), [h \in Any |->
  Let(IF h.initializer THEN expression(h.c)
      ELSE emit_instr(h.c, <<"OpNil">>), [c2 \in Any |->
  Let(define_variable(
         consume(c2, "TokenSemicolon", "Expected ';' after variable declaration"),
         h.v), [c4 \in Any |->
  IF h.begun /\ ~Dead(c4) THEN [c4 EXCEPT !.h.initializing = Front(@)] ELSE c4])])])

\* ------------------------------------------------------------ statements
print_statement(c) ==
  Let(expression(c), [c1 \in Any |->
  emit_instr(consume(c1, "TokenSemicolon", "Expected ';' after value in print statement"),
             <<"OpPrint">>)])

return_statement(c) ==
  IF Dead(c) THEN c
  ELSE
    Let(match_cur(IF current_fn_type(c) = "Script"
                  THEN error(c, "Cannot return from top-level code") ELSE c,
                  "TokenSemicolon"), [m \in Any |->
    Let(IF m.v THEN emit_return(m.c)
        ELSE
          Let(expression(IF current_fn_type(m.c) = "Initializer"
                         THEN error(m.c, "Cannot return a value from an initializer")
                         ELSE m.c), [c3 \in Any |->
          emit_instr(consume(c3, "TokenSemicolon", "Expected ';' after return value"),
                     <<"OpReturn">>)]), [c4 \in Any |->
    IF Dead(c4) THEN c4
    ELSE [c4 EXCEPT !.h.returns = Append(@,
            [fn_type |-> current_fn_type(c),
             function |-> c.current_function,
             bare |-> m.v,
             raised |-> SubSeq(c4.h.raised, Len(c.h.raised) + 1, Len(c4.h.raised)),
             emitted |-> [n \in 1..(Len(current_chunk(c4).code) - Len(current_chunk(c).code))
                            |-> current_chunk(c4).code[Len(current_chunk(c).code) + n].op_code]])]])])

await_statement(c) ==
  Let(expression(c), [c1 \in Any |->
  emit_instr(consume(c1, "TokenSemicolon", "Expected ';' after value in await statement"),
             <<"OpAwait">>)])

expression_statement(c) ==
  Let(expression(c), [c1 \in Any |->
  emit_instr(consume(c1, "TokenSemicolon", "Expected ';' after value"), <<"OpPop">>)])

if_statement(c) ==
  Let(expression(consume(c, "TokenLeftParen", "Expected '(' after 'if'")), [c1 \in Any |->
  Let(emit_jif(consume(c1, "TokenRightParen",
                       "Expected ')' after condition")), [jump_index \in Any |->
  Let(statement(emit_instr(jump_index.c, <<"OpPop">>)), [c3 \in Any |->
  Let(match_cur(c3, "TokenElse"), [m \in Any |->
  IF m.v
  THEN Let(emit_jump(m.c), [else_jump \in Any |->
       Let(statement(emit_instr(patch_jump(else_jump.c, jump_index.v),
                                <<"OpPop">>)), [c5 \in Any |->
       patch_jump(c5, else_jump.v)])])
  ELSE patch_jump(m.c, jump_index.v)])])])])

while_statement(c) ==
  IF Dead(c) THEN c
  ELSE
    Let(expression(consume(c, "TokenLeftParen", "Expected '(' after 'while'")), [c1 \in Any |->
    Let(emit_jif(consume(c1, "TokenRightParen",
                       "Expected ')' after loop condition")), [exit_jump \in Any |->
    Let(statement(emit_instr(exit_jump.c, <<"OpPop">>)), [c3 \in Any |->
        \* loop_start: the length of the code when the statement began
    Let(emit_loop(c3, Len(current_chunk(c).code)), [c4 \in Any |->
    emit_instr(patch_jump(c4, exit_jump.v), <<"OpPop">>)])])])])

for_statement(c) ==
  IF Dead(c) THEN c
  ELSE
    Let(begin_scope(consume(c, "TokenLeftParen", "Expected '(' after 'for'")), [c1 \in Any |->
        \* first clause
    Let(match_cur(c1, "TokenSemicolon"), [m1 \in Any |->
    Let(IF m1.v THEN m1.c
        ELSE Let(match_cur(m1.c, "TokenVar"), [mv \in Any |->
             IF mv.v THEN var_declaration(mv.c)
             ELSE expression_statement(mv.c)]), [c2 \in Any |->
    Let(Len(current_chunk(c2).code), [loop_start0 \in Any |->
        \* loop conditional: [c, exit_jump]
    Let(match_cur(c2, "TokenSemicolon"), [m2 \in Any |->
    Let(IF ~m2.v
        THEN Let(consume(expression(m2.c), "TokenSemicolon",
                         "Expected ';' after loop condition"), [d1 \in Any |->
             Let(emit_jif(d1), [j \in Any |->
             [c |-> emit_instr(j.c, <<"OpPop">>), exit_jump |-> Some(j.v)]])])
        ELSE [c |-> m2.c, exit_jump |-> None], [cond \in Any |->
        \* increment: [c, loop_start]
    Let(match_cur(cond.c, "TokenRightParen"), [m3 \in Any |->
    Let(IF ~m3.v
        THEN Let(emit_jump(m3.c), [body_jump \in Any |->
             Let(Len(current_chunk(body_jump.c).code), [increment_start \in Any |->
             Let(emit_instr(expression(body_jump.c), <<"OpPop">>), [e1 \in Any |->
             Let(consume(e1, "TokenRightParen",
                         "Expected ')' after for loop clauses"), [e2 \in Any |->
             Let(emit_loop(e2, loop_start0), [e3 \in Any |->
             [c |-> patch_jump(e3, body_jump.v), loop_start |-> increment_start]])])])])])
        ELSE [c |-> m3.c, loop_start |-> loop_start0], [incr \in Any |->
    Let(emit_loop(statement(incr.c), incr.loop_start), [c3 \in Any |->
    Let(IF IsSome(cond.exit_jump)
        THEN emit_instr(patch_jump(c3, Unwrap(cond.exit_jump)), <<"OpPop">>)
        ELSE c3, [c4 \in Any |->
    end_scope(c4)])])])])])])])])])])

\* self.resolver.stack[0].add_local(..) for every name, in order
RECURSIVE AddLocals(_, _)
AddLocals(r, names) ==
  IF Len(names) = 0 THEN r
  ELSE AddLocals([r EXCEPT !.stack = SetAt(@, 0, Node_add_local(At(@, 0), Head(names)))],
                 Tail(names))

\* identifier_constant + emit OpDefineGlobal for every name, in order
RECURSIVE DefineGlobals(_, _)
DefineGlobals(c, names) ==
  IF Len(names) = 0 THEN c
  ELSE Let(identifier_constant(c, Head(names)), [i \in Any |->
       DefineGlobals(emit_instr(i.c, <<"OpDefineGlobal", i.v>>), Tail(names))])

RECURSIVE Prefixed(_, _)
\* name + "::" + c for every c of names
Prefixed(name, names) ==
  IF Len(names) = 0 THEN << >>
  ELSE <<name \o "::" \o Head(names)>> \o Prefixed(name, Tail(names))

Compiler_new(code, quiet) ==
  Let(scan_token(Scanner_new(code)), [first \in Any |->
  Let([scanner |-> first.sc,
tokens |-> <<first.v>>,
constants |-> << >>,
identifier_constants |-> << >>,
classes |-> << >>,
current_class |-> None,
functions |-> <<FunctionChunk_new(None, 0, "Script")>>,
current_function |-> 0,
parent_functions |-> << >>,
resolver |-> Resolver_new,
had_error |-> FALSE,
panic_mode |-> FALSE,
quiet_mode |-> quiet,
stderr |-> << >>,   \* what the process has written to stderr
abort |-> "",       \* "exit1" or "panic" once the process has ended
h |-> Hist_new], [compiler \in Any |->
  IF first.v.token_type = "TokenError"
  THEN error(advance(compiler), first.v.lexemme)
  ELSE compiler])])

\* the module path between the quotes of the string just consumed
module_name(c) == SubSeq(previous(c).lexemme, 2, Len(previous(c).lexemme) - 1)

\* an import that registers the unit's names as they are, without the prefix
import_unit_unprefixed(c, name, compile_result) ==
  Let([c EXCEPT
         !.resolver = AddLocals(@, compile_result.identifier_constants),
         !.constants = @ \o compile_result.constants,
         !.identifier_constants = @ \o compile_result.identifier_constants,
         !.h.constant_requests = @ \o compile_result.constants,
         !.h.identifier_requests = @ \o compile_result.identifier_constants], [c3 \in Any |->
  Let(DefineGlobals(c3, compile_result.identifier_constants), [c4 \in Any |->
  [c4 EXCEPT !.classes = @ \o compile_result.classes,
             !.functions = @ \o compile_result.functions,
             !.h.imports = Append(@,
               [name |-> name, unit |-> compile_result,
                before |-> [classes |-> c.classes, functions |-> c.functions,
                            constants |-> c.constants,
                            identifier_constants |-> c.identifier_constants],
                function |-> c.current_function,
                code |-> Len(current_chunk(c).code)])]])])

\* import_statement, once the module has been compiled: its names, constants,
\* classes and functions join those of the importing compiler
import_unit(c, name, compile_result) ==
  Let(Prefixed(name, compile_result.identifier_constants), [identifier_constants \in Any |->
  Let([c EXCEPT
         !.resolver = AddLocals(@, identifier_constants),
         !.constants = @ \o compile_result.constants,
         !.identifier_constants = @ \o identifier_constants,
         !.h.constant_requests = @ \o compile_result.constants,
         !.h.identifier_requests = @ \o identifier_constants], [c3 \in Any |->
  Let(DefineGlobals(c3, identifier_constants), [c4 \in Any |->
  [c4 EXCEPT !.classes = @ \o compile_result.classes,
             !.functions = @ \o compile_result.functions,
             !.h.imports = Append(@,
               [name |-> name, unit |-> compile_result,
                before |-> [classes |-> c.classes, functions |-> c.functions,
                            constants |-> c.constants,
                            identifier_constants |-> c.identifier_constants],
                function |-> c.current_function,
                code |-> Len(current_chunk(c).code)])]])])])

\* history: import_statement has a module name and meets the outcome
NoteUse(c, outcome, unit_had_error) ==
  [c EXCEPT !.h.uses = Append(@,
     [name |-> module_name(c), outcome |-> outcome,
      unit_had_error |-> unit_had_error,
      had_error |-> c.had_error,
      tokens |-> Len(c.tokens),
      merged |-> Len(c.h.imports)])]

\* an import that reports a module that does not compile as a compile error
\* of the importer and goes on
import_statement_recovering(c) ==
  Let(consume(c, "TokenString", "Expected module path after keyword 'use'"), [c1 \in Any |->
  IF Dead(c1) THEN c1
  ELSE IF Len(previous(c1).lexemme) < 2 THEN Exit(c1, "panic")
  ELSE IF module_name(c1) \notin DOMAIN Files \cup Unreadable
    THEN Exit(NoteUse(c1, "open", FALSE), "exit1")
  ELSE IF module_name(c1) \in Unreadable
    THEN Exit(NoteUse(c1, "read", FALSE), "exit1")
  ELSE
    Let(compile(Compiler_new(Files[module_name(c1)], c1.quiet_mode)), [unit \in Any |->
    Let([c1 EXCEPT !.stderr = @ \o unit.c.stderr], [c2 \in Any |->
    IF Dead(unit.c) THEN Exit(NoteUse(c2, "dead", unit.c.had_error), unit.c.abort)
    ELSE IF unit.v = None
      THEN error(NoteUse(c2, "none", unit.c.had_error), "Could not compile module")
    ELSE import_unit(NoteUse(c2, "some", unit.c.had_error),
                     module_name(c1), Unwrap(unit.v))])])])

import_statement(c) ==
  Let(consume(c, "TokenString", "Expected module path after keyword 'use'"), [c1 \in Any |->
  IF Dead(c1) THEN c1
  ELSE IF Len(previous(c1).lexemme) < 2 THEN Exit(c1, "panic")   \* name[1..name.len() - 1]
  ELSE IF module_name(c1) \notin DOMAIN Files \cup Unreadable   \* File::open fails
    THEN Exit(NoteUse(c1, "open", FALSE), "exit1")
  ELSE IF module_name(c1) \in Unreadable   \* read_to_string fails
    THEN Exit(NoteUse(c1, "read", FALSE), "exit1")
  ELSE
    Let(compile(Compiler_new(Files[module_name(c1)], c1.quiet_mode)), [unit \in Any |->
    Let([c1 EXCEPT !.stderr = @ \o unit.c.stderr], [c2 \in Any |->
    IF Dead(unit.c) THEN Exit(NoteUse(c2, "dead", unit.c.had_error), unit.c.abort)
    ELSE IF unit.v = None   \* unwrap()
      THEN Exit(NoteUse(c2, "none", unit.c.had_error), "panic")
    ELSE import_unit(NoteUse(c2, "some", unit.c.had_error),
                     module_name(c1), Unwrap(unit.v))])])])

statement(c) ==
  IF Dead(c) THEN c
  ELSE
    CASE check(c, "TokenPrint") -> print_statement(advance(c))
      [] check(c, "TokenReturn") -> return_statement(advance(c))
      [] check(c, "TokenIf") -> if_statement(advance(c))
      [] check(c, "TokenWhile") -> while_statement(advance(c))
      [] check(c, "TokenFor") -> for_statement(advance(c))
      [] check(c, "TokenLeftBrace") ->
           Let(block(begin_scope(advance(c))), [c1 \in Any |-> end_scope(c1)])
      [] check(c, "TokenAwait") -> await_statement(advance(c))
      [] check(c, "TokenUse") -> import_statement(advance(c))
      [] OTHER -> expression_statement(c)

\* history: a call of declaration() begins
NoteBegins(c) ==
  [c EXCEPT !.h.decls = @ + 1,
            !.h.panic_at_decl = @ \/ c.panic_mode,
            !.h.after_error = @ + (IF c.had_error THEN 1 ELSE 0)]

\* history: a call of declaration() ends, c0 before and c1 after
NoteEnds(c0, c1) ==
  IF Dead(c1) THEN c1
  ELSE [c1 EXCEPT !.h.stalled = @ \/ (/\ ~check(c0, "TokenEOF")
                                       /\ Len(c1.tokens) <= Len(c0.tokens))]

declaration(c) ==
  [c1 \in Any |->
     NoteEnds(c, IF ~Dead(c1) /\ c1.panic_mode THEN synchronize(c1) ELSE c1)][
   CASE check(c, "TokenFun") -> fun_declaration(advance(NoteBegins(c)))
     [] check(c, "TokenClass") -> class_declaration(advance(NoteBegins(c)))
     [] check(c, "TokenVar") -> var_declaration(advance(NoteBegins(c)))
     [] OTHER -> statement(NoteBegins(c))]

CompilationResult(c) ==
  [classes |-> c.classes, functions |-> c.functions, constants |-> c.constants,
   identifier_constants |-> c.identifier_constants]

\* compile() once the loop has met end-of-file: [c, v = Option<CompilationResult>]
compile_end(c) ==
  Let(end_compilation(advance(c)), [c1 \in Any |->
  [c |-> c1, v |-> IF ~c1.had_error THEN Some(CompilationResult(c1)) ELSE None]])

\* Compiler::compile, the whole pass: [c, v = Option<CompilationResult>]
compile(c) ==
  IF Dead(c) THEN [c |-> c, v |-> None]
  ELSE IF check(c, "TokenEOF") THEN compile_end(c)
  ELSE [c1 \in Any |-> compile(c1)][declaration(c)]

\* ------------------------------------------------------------- sources
\* Source texts, as the lexemes the scanner cuts them into.  A program is the
\* concatenation of some of them.

\* var a = 1;
SrcVarA ==
  <<"var", "a", "=", "1", ";">>

\* print a;
SrcPrintA ==
  <<"print", "a", ";">>

\* { var x = 1; var x = 2; }
SrcRedeclared ==
  <<"{", "var", "x", "=", "1", ";", "var", "x", "=", "2", ";", "}">>

\* { var x = 1; { var x = 2; print x; } }
SrcShadowed ==
  <<"{", "var", "x", "=", "1", ";", "{", "var", "x", "=", "2", ";", "print",
    "x", ";", "}", "}">>

\* { var x = 1; }
SrcBlockX ==
  <<"{", "var", "x", "=", "1", ";", "}">>

\* { var a = a; }
SrcOwnInitializer ==
  <<"{", "var", "a", "=", "a", ";", "}">>

\* { var a = 1; { var a = a; } }
SrcShadowOwnInitializer ==
  <<"{", "var", "a", "=", "1", ";", "{", "var", "a", "=", "a", ";", "}", "}">>

\* { fun f() { return f; } }
SrcLocalFun ==
  <<"{", "fun", "f", "(", ")", "{", "return", "f", ";", "}", "}">>

\* { class K { m() { return K; } } }
SrcLocalClass ==
  <<"{", "class", "K", "{", "m", "(", ")", "{", "return", "K", ";", "}", "}",
    "}">>

\* fun f(n) { return f(n); }
SrcRecursion ==
  <<"fun", "f", "(", "n", ")", "{", "return", "f", "(", "n", ")", ";", "}">>

\* fun o() { var x = 1; fun m() { fun i() { return x; } } }
SrcTwoLevel ==
  <<"fun", "o", "(", ")", "{", "var", "x", "=", "1", ";", "fun", "m", "(",
    ")", "{", "fun", "i", "(", ")", "{", "return", "x", ";", "}", "}", "}">>

\* fun counter() { var i = 0; fun inc() { i = i + 1; return i; } return inc; }
SrcCounter ==
  <<"fun", "counter", "(", ")", "{", "var", "i", "=", "0", ";", "fun", "inc",
    "(", ")", "{", "i", "=", "i", "+", "1", ";", "return", "i", ";", "}",
    "return", "inc", ";", "}">>

\* fun g(y) { var z = y; return z; }
SrcNoCapture ==
  <<"fun", "g", "(", "y", ")", "{", "var", "z", "=", "y", ";", "return", "z",
    ";", "}">>

\* { use "m" }
SrcImportInBlock ==
  <<"{", "use", "\"m\"", "}">>

\* { use "m" var y = 1; }
SrcImportThenVar ==
  <<"{", "use", "\"m\"", "var", "y", "=", "1", ";", "}">>

\* use "m"
SrcImport ==
  <<"use", "\"m\"">>

\* for (var i = 0; i < 2; i = i + 1) print i;
SrcForVar ==
  <<"for", "(", "var", "i", "=", "0", ";", "i", "<", "2", ";", "i", "=", "i",
    "+", "1", ")", "print", "i", ";">>

\* for (var i = 0; i < 2; i = i + 1) { var j = i; }
SrcForBlock ==
  <<"for", "(", "var", "i", "=", "0", ";", "i", "<", "2", ";", "i", "=", "i",
    "+", "1", ")", "{", "var", "j", "=", "i", ";", "}">>

\* if (a) print 1; else print 2;
SrcIfElse ==
  <<"if", "(", "a", ")", "print", "1", ";", "else", "print", "2", ";">>

\* if (a) { fun g() { } }
SrcIfFun ==
  <<"if", "(", "a", ")", "{", "fun", "g", "(", ")", "{", "}", "}">>

\* while (a) print 1;
SrcWhile ==
  <<"while", "(", "a", ")", "print", "1", ";">>

\* while (a and b) { fun g() { if (b) return 1; } }
SrcWhileFun ==
  <<"while", "(", "a", "and", "b", ")", "{", "fun", "g", "(", ")", "{", "if",
    "(", "b", ")", "return", "1", ";", "}", "}">>

\* for (;;) print 1;
SrcForEmpty ==
  <<"for", "(", ";", ";", ")", "print", "1", ";">>

\* print a and b or c;
SrcAndOr ==
  <<"print", "a", "and", "b", "or", "c", ";">>

\* fun t(a) { if (a) return 1; }
SrcIfReturn ==
  <<"fun", "t", "(", "a", ")", "{", "if", "(", "a", ")", "return", "1", ";",
    "}">>

\* class A { greet() { return 1; } }
SrcClassA ==
  <<"class", "A", "{", "greet", "(", ")", "{", "return", "1", ";", "}", "}">>

\* class A { init() { } hi() { } }
SrcClassAInit ==
  <<"class", "A", "{", "init", "(", ")", "{", "}", "hi", "(", ")", "{", "}",
    "}">>

\* class B < A { }
SrcClassB ==
  <<"class", "B", "<", "A", "{", "}">>

\* class B < A { greet() { return 2; } }
SrcClassBOverride ==
  <<"class", "B", "<", "A", "{", "greet", "(", ")", "{", "return", "2", ";",
    "}", "}">>

\* class C < B { }
SrcClassC ==
  <<"class", "C", "<", "B", "{", "}">>

\* class C < C { }
SrcClassSelf ==
  <<"class", "C", "<", "C", "{", "}">>

\* class D < Nope { }
SrcClassUnknown ==
  <<"class", "D", "<", "Nope", "{", "}">>

\* use "geom"
SrcImportGeom ==
  <<"use", "\"geom\"">>

\* class I { init() { return; } }
SrcInitReturn ==
  <<"class", "I", "{", "init", "(", ")", "{", "return", ";", "}", "}">>

\* print + 1;
SrcBadExpr ==
  <<"print", "+", "1", ";">>

\* print + 1 2 @ ; print + ;
SrcBadChar ==
  <<"print", "+", "1", "2", "@", ";", "print", "+", ";">>

\* @ print + ;
SrcLeadingBadChar ==
  <<"@", "print", "+", ";">>

\* print 1
SrcNoSemicolon ==
  <<"print", "1">>

\* { var x = 1;
SrcUnclosed ==
  <<"{", "var", "x", "=", "1", ";">>

\* var ;
SrcVarNoName ==
  <<"var", ";">>

\* return 1;
SrcTopReturn ==
  <<"return", "1", ";">>

\* print 1;
SrcPrintOne ==
  <<"print", "1", ";">>

\* use "broken"
SrcImportBroken ==
  <<"use", "\"broken\"">>

\* use "nofile"
SrcImportMissing ==
  <<"use", "\"nofile\"">>

\* use "data"
SrcImportUnreadable ==
  <<"use", "\"data\"">>

\* fun f( { print 1; }
SrcFunNoBody ==
  <<"fun", "f", "(", "{", "print", "1", ";", "}">>

\* { { var x = 1; } { var x = 2; } }
SrcSiblings ==
  <<"{", "{", "var", "x", "=", "1", ";", "}", "{", "var", "x", "=", "2", ";",
    "}", "}">>

\* var g = 1; var g = 2;
SrcGlobalTwice ==
  <<"var", "g", "=", "1", ";", "var", "g", "=", "2", ";">>

\* fun p(a, a) { }
SrcDupParam ==
  <<"fun", "p", "(", "a", ",", "a", ")", "{", "}">>

\* { var f = 1; fun f() { } }
SrcDupFun ==
  <<"{", "var", "f", "=", "1", ";", "fun", "f", "(", ")", "{", "}", "}">>

\* fun q(a) { var a = 1; }
SrcParamBody ==
  <<"fun", "q", "(", "a", ")", "{", "var", "a", "=", "1", ";", "}">>

\* { var a = 1; var a = a; }
SrcRedeclaredRead ==
  <<"{", "var", "a", "=", "1", ";", "var", "a", "=", "a", ";", "}">>

\* fun h() { var b = b; }
SrcFunOwnInit ==
  <<"fun", "h", "(", ")", "{", "var", "b", "=", "b", ";", "}">>

\* class A { greet() { return 1; } hi() { } } class B < A { greet() { return 2; } } class C < B { }
SrcChain ==
  <<"class", "A", "{", "greet", "(", ")", "{", "return", "1", ";", "}", "hi",
    "(", ")", "{", "}", "}", "class", "B", "<", "A", "{", "greet", "(", ")",
    "{", "return", "2", ";", "}", "}", "class", "C", "<", "B", "{", "}">>

\* class A { greet() { return 1; } } class A { hi() { } } class B < A { }
SrcRedefinedA ==
  <<"class", "A", "{", "greet", "(", ")", "{", "return", "1", ";", "}", "}",
    "class", "A", "{", "hi", "(", ")", "{", "}", "}", "class", "B", "<", "A",
    "{", "}">>

\* class E < { }
SrcClassNoSuper ==
  <<"class", "E", "<", "{", "}">>

\* class A { m() { class B < A { } } n() { } }
SrcNestedSubclass ==
  <<"class", "A", "{", "m", "(", ")", "{", "class", "B", "<", "A", "{", "}",
    "}", "n", "(", ")", "{", "}", "}">>

\* print 2;
SrcPrintTwo ==
  <<"print", "2", ";">>

\* fun g() { use "m" }
SrcImportInFun ==
  <<"fun", "g", "(", ")", "{", "use", "\"m\"", "}">>

\* print m::sq(2);
SrcUseSq ==
  <<"print", "m", "::", "sq", "(", "2", ")", ";">>

\* fun f(x) { return x; }
SrcFunF ==
  <<"fun", "f", "(", "x", ")", "{", "return", "x", ";", "}">>

\* f(1) = 3;
SrcCallAssign ==
  <<"f", "(", "1", ")", "=", "3", ";">>

\* (a) = 3;
SrcGroupAssign ==
  <<"(", "a", ")", "=", "3", ";">>

\* a + b = 3;
SrcSumAssign ==
  <<"a", "+", "b", "=", "3", ";">>

\* -a = 3;
SrcNegAssign ==
  <<"-", "a", "=", "3", ";">>

\* class T { m() { this = 1; } }
SrcThisAssign ==
  <<"class", "T", "{", "m", "(", ")", "{", "this", "=", "1", ";", "}", "}">>

\* { var g = 1; g(1) = 3; }
SrcLocalCallAssign ==
  <<"{", "var", "g", "=", "1", ";", "g", "(", "1", ")", "=", "3", ";", "}">>

\* a = 3;
SrcAssign ==
  <<"a", "=", "3", ";">>

\* a.b = 3;
SrcSetProperty ==
  <<"a", ".", "b", "=", "3", ";">>

\* the items with a comma between each two
Separated(items) ==
  [i \in 1..(2 * Len(items) - 1) |->
     IF i % 2 = 1 THEN items[(i + 1) \div 2] ELSE ","]

\* p1, p2, .., pn
ParamNames(n) == Separated([i \in 1..n |-> "p" \o ToString(i)])

\* 1, 1, .., 1 (n of them)
Ones(n) == Separated([i \in 1..n |-> "1"])

\* fun p(p1, .., pn) { }
SrcParams(n) ==
  <<"fun", "p", "(">> \o ParamNames(n) \o <<")", "{", "}">>

\* class M { m(p1, .., pn) { } }
SrcMethodParams(n) ==
  <<"class", "M", "{", "m", "(">> \o ParamNames(n) \o <<")", "{", "}", "}">>

\* print f(1, .., 1);
SrcArgs(n) ==
  <<"print", "f", "(">> \o Ones(n) \o <<")", ";">>

\* print a.b(1, .., 1);
SrcInvokeArgs(n) ==
  <<"print", "a", ".", "b", "(">> \o Ones(n) \o <<")", ";">>

\* { var g = 1; g(1, .., 1); }
SrcLocalArgs(n) ==
  <<"{", "var", "g", "=", "1", ";", "g", "(">> \o Ones(n) \o <<")", ";", "}">>

\* { var v = 1; class C { m() { return v; } } }
SrcMethodCapture ==
  <<"{", "var", "v", "=", "1", ";", "class", "C", "{", "m", "(", ")", "{",
    "return", "v", ";", "}", "}", "}">>

\* fun g() { return m::a; }
SrcFunUseMember ==
  <<"fun", "g", "(", ")", "{", "return", "m", "::", "a", ";", "}">>

\* print m::a;
SrcUseMember ==
  <<"print", "m", "::", "a", ";">>

\* print a.b;
SrcGetProperty ==
  <<"print", "a", ".", "b", ";">>

\* a.b(1, 2);
SrcInvoke ==
  <<"a", ".", "b", "(", "1", ",", "2", ")", ";">>

\* a + b.c = 3;
SrcSumProperty ==
  <<"a", "+", "b", ".", "c", "=", "3", ";">>

\* a.b.c = a.d;
SrcSetNested ==
  <<"a", ".", "b", ".", "c", "=", "a", ".", "d", ";">>

\* f(1);
SrcCallGlobal ==
  <<"f", "(", "1", ")", ";">>

\* { var g = 1; g(2); }
SrcCallLocal ==
  <<"{", "var", "g", "=", "1", ";", "g", "(", "2", ")", ";", "}">>

\* fun o() { var h = 1; fun i() { h(1, 2); } }
SrcCallUpvalue ==
  <<"fun", "o", "(", ")", "{", "var", "h", "=", "1", ";", "fun", "i", "(",
    ")", "{", "h", "(", "1", ",", "2", ")", ";", "}", "}">>

\* class B < A { greet ( ) { return super . greet ( ) ; } }
SrcSuperCall ==
  <<"class", "B", "<", "A", "{", "greet", "(", ")", "{", "return", "super",
    ".", "greet", "(", ")", ";", "}", "}">>

\* class B < A { hi ( ) { return super . greet ( ) ; } m ( ) { fun g ( ) { return super . greet ; } } }
SrcSuperNested ==
  <<"class", "B", "<", "A", "{", "hi", "(", ")", "{", "return", "super", ".",
    "greet", "(", ")", ";", "}", "m", "(", ")", "{", "fun", "g", "(", ")",
    "{", "return", "super", ".", "greet", ";", "}", "}", "}">>

\* class B < A { m ( ) { super . greet = 1 ; } }
SrcSuperAssign ==
  <<"class", "B", "<", "A", "{", "m", "(", ")", "{", "super", ".", "greet",
    "=", "1", ";", "}", "}">>

\* class C < C { m ( ) { return super . m ; } }
SrcSuperSelf ==
  <<"class", "C", "<", "C", "{", "m", "(", ")", "{", "return", "super", ".",
    "m", ";", "}", "}">>

\* class N { m ( ) { return super . m ; } }
SrcSuperNoSuperclass ==
  <<"class", "N", "{", "m", "(", ")", "{", "return", "super", ".", "m", ";",
    "}", "}">>

\* print super . m ;
SrcSuperTop ==
  <<"print", "super", ".", "m", ";">>

\* fun s ( ) { return super . m ; }
SrcSuperInFun ==
  <<"fun", "s", "(", ")", "{", "return", "super", ".", "m", ";", "}">>

\* class B < A { m ( ) { super ; } }
SrcSuperAlone ==
  <<"class", "B", "<", "A", "{", "m", "(", ")", "{", "super", ";", "}", "}">>

\* class B < A { m ( ) { class I { n ( ) { return super . greet ; } } } }
SrcSuperInInner ==
  <<"class", "B", "<", "A", "{", "m", "(", ")", "{", "class", "I", "{", "n",
    "(", ")", "{", "return", "super", ".", "greet", ";", "}", "}", "}", "}">>

\* print this ;
SrcThisTop ==
  <<"print", "this", ";">>

\* class T { m ( ) { return this ; } }
SrcThisMethod ==
  <<"class", "T", "{", "m", "(", ")", "{", "return", "this", ";", "}", "}">>

\* fun u ( ) { return this ; }
SrcThisInFun ==
  <<"fun", "u", "(", ")", "{", "return", "this", ";", "}">>

\* class O { m ( ) { class I { } return this ; } }
SrcThisAfterInner ==
  <<"class", "O", "{", "m", "(", ")", "{", "class", "I", "{", "}", "return",
    "this", ";", "}", "}">>

\* class T { m ( ) { fun g ( ) { return this ; } } }
SrcThisNestedFun ==
  <<"class", "T", "{", "m", "(", ")", "{", "fun", "g", "(", ")", "{",
    "return", "this", ";", "}", "}", "}">>

\* fun t ( a ) { if ( a ) print 1 ; else return 2 ; }
SrcElseReturn ==
  <<"fun", "t", "(", "a", ")", "{", "if", "(", "a", ")", "print", "1", ";",
    "else", "return", "2", ";", "}">>

\* fun r ( a ) { if ( a ) return 1 ; else return 2 ; }
SrcIfElseReturn ==
  <<"fun", "r", "(", "a", ")", "{", "if", "(", "a", ")", "return", "1", ";",
    "else", "return", "2", ";", "}">>

\* class M { m ( a ) { if ( a ) print 1 ; else return 2 ; } }
SrcMethodElseReturn ==
  <<"class", "M", "{", "m", "(", "a", ")", "{", "if", "(", "a", ")", "print",
    "1", ";", "else", "return", "2", ";", "}", "}">>

\* return;
SrcTopBareReturn ==
  <<"return", ";">>

\* fun n() { return; }
SrcBareReturn ==
  <<"fun", "n", "(", ")", "{", "return", ";", "}">>

\* class Q { q() { return; } }
SrcMethodBareReturn ==
  <<"class", "Q", "{", "q", "(", ")", "{", "return", ";", "}", "}">>

\* class J { init() { return 1; } }
SrcInitReturnValue ==
  <<"class", "J", "{", "init", "(", ")", "{", "return", "1", ";", "}", "}">>

\* class W { init() { fun h() { return; } return; } }
SrcInitNestedReturn ==
  <<"class", "W", "{", "init", "(", ")", "{", "fun", "h", "(", ")", "{",
    "return", ";", "}", "return", ";", "}", "}">>

\* fun e() { return 1 }
SrcReturnNoSemicolon ==
  <<"fun", "e", "(", ")", "{", "return", "1", "}">>

\* programs with and without compile errors
ErrorCorpus ==
  <<SrcVarA, SrcPrintA, SrcPrintOne, SrcBadExpr, SrcBadChar,
    SrcLeadingBadChar, SrcNoSemicolon, SrcUnclosed, SrcVarNoName,
    SrcTopReturn, SrcFunNoBody, SrcRedeclared, SrcOwnInitializer,
    SrcClassSelf, SrcImportBroken, SrcImportMissing, SrcBlockX, SrcRecursion,
    SrcImport, SrcClassA>>

\* control flow and function bodies
FlowCorpus ==
  <<SrcIfElse, SrcIfFun, SrcWhile, SrcWhileFun, SrcForVar, SrcForBlock,
    SrcForEmpty, SrcAndOr, SrcIfReturn, SrcVarA, SrcRecursion, SrcClassA,
    SrcClassAInit, SrcInitReturn, SrcImport, SrcTwoLevel, SrcNoCapture,
    SrcBadExpr, SrcUnclosed, SrcTopReturn, SrcElseReturn, SrcIfElseReturn,
    SrcMethodElseReturn, SrcTopBareReturn, SrcBareReturn, SrcMethodBareReturn,
    SrcInitReturnValue, SrcInitNestedReturn, SrcReturnNoSemicolon>>

\* scopes, locals and closures
ScopeCorpus ==
  <<SrcVarA, SrcPrintA, SrcRedeclared, SrcShadowed, SrcSiblings,
    SrcGlobalTwice, SrcDupParam, SrcDupFun, SrcParamBody, SrcRedeclaredRead,
    SrcBlockX, SrcOwnInitializer, SrcShadowOwnInitializer, SrcFunOwnInit,
    SrcLocalFun, SrcLocalClass, SrcRecursion, SrcTwoLevel, SrcCounter,
    SrcNoCapture, SrcImportInBlock, SrcImportThenVar, SrcImport, SrcForVar,
    SrcForBlock, SrcBadExpr>>

\* classes and inheritance
ClassCorpus ==
  <<SrcVarA, SrcClassA, SrcClassAInit, SrcClassB, SrcClassBOverride,
    SrcClassC, SrcChain, SrcRedefinedA, SrcClassSelf, SrcClassUnknown,
    SrcClassNoSuper, SrcImportGeom, SrcLocalClass, SrcNestedSubclass,
    SrcBadExpr, SrcSuperCall, SrcSuperNested, SrcSuperAssign, SrcSuperSelf,
    SrcSuperNoSuperclass, SrcSuperTop, SrcSuperInFun, SrcSuperAlone,
    SrcSuperInInner, SrcThisTop, SrcThisMethod, SrcThisInFun,
    SrcThisAfterInner, SrcThisNestedFun, SrcThisAssign>>

\* imports among other declarations
ImportCorpus ==
  <<SrcVarA, SrcPrintA, SrcPrintOne, SrcPrintTwo, SrcRecursion, SrcClassA,
    SrcImport, SrcImportGeom, SrcImportInBlock, SrcImportInFun, SrcUseSq,
    SrcImportBroken, SrcBadExpr, SrcImportMissing, SrcImportUnreadable>>

\* expressions: assignments, calls, property accesses, variable references
ExprCorpus ==
  <<SrcVarA, SrcPrintA, SrcFunF, SrcCallAssign, SrcGroupAssign, SrcSumAssign,
    SrcNegAssign, SrcThisAssign, SrcLocalCallAssign, SrcAssign,
    SrcSetProperty, SrcCounter, SrcNoCapture, SrcTwoLevel, SrcClassAInit,
    SrcMethodCapture, SrcImport, SrcFunUseMember, SrcUseMember, SrcUseSq,
    SrcShadowed, SrcGetProperty, SrcInvoke, SrcSumProperty, SrcSetNested,
    SrcCallGlobal, SrcCallLocal, SrcCallUpvalue>>

\* the most parameters a function and the most arguments a call may have
ArityLimit == 255

\* parameter and argument lists at the limit and one past it
ArityCorpus ==
  <<SrcVarA, SrcFunF, SrcParams(2), SrcArgs(2),
    SrcParams(ArityLimit), SrcParams(ArityLimit + 1),
    SrcMethodParams(ArityLimit), SrcMethodParams(ArityLimit + 1),
    SrcArgs(ArityLimit), SrcArgs(ArityLimit + 1),
    SrcInvokeArgs(ArityLimit), SrcInvokeArgs(ArityLimit + 1),
    SrcLocalArgs(ArityLimit), SrcLocalArgs(ArityLimit + 1)>>

\* the lexemes of the token sequences: what opens a block, a class body, a
\* parameter list and an argument list, what closes or separates them, a
\* name, and a character the scanner rejects
Alphabet == {"fun", "class", "{", "}", "(", ")", ",", "a", ";", "@"}

\* how many tokens a token sequence has before its end-of-file, at most
MaxTokens == 5

\* every sequence of at most n lexemes of the alphabet
TokenStrings(n) == UNION {[1..k -> Alphabet] : k \in 0..n}

\* how many of the sources a program concatenates, at most
MaxDecls == 2


RECURSIVE Source(_, _)
\* the program made of the sources picked, in order
Source(corpus, picks) ==
  IF Len(picks) = 0 THEN << >>
  ELSE corpus[Head(picks)] \o Source(corpus, Tail(picks))

Programs(corpus, n) ==
  {Source(corpus, picks) :
     picks \in UNION {[1..k -> 1..Len(corpus)] : k \in 0..n}}

\* ------------------------------------------------------- the state machine
VARIABLES
  compiler,  \* the Compiler
  result,    \* what compile() returned: Option<CompilationResult>
  pc         \* "compile": in the loop of compile(); "done": compile() has
             \* returned; "aborted": the process ended inside the compiler

vars == <<compiler, result, pc>>

InitWith(programs) ==
  \E code \in programs, quiet \in BOOLEAN :
    /\ compiler = Compiler_new(code, quiet)
    /\ result = None
    /\ pc = "compile"

\* an iteration of the loop that takes a stray `;` for an empty statement
\* and leaves it where it is
DeclareIdle ==
  /\ pc = "compile"
  /\ ~check(compiler, "TokenEOF")
  /\ compiler' = IF check(compiler, "TokenSemicolon")
                 THEN NoteBegins(compiler)
                 ELSE declaration(compiler)
  /\ pc' = IF Dead(compiler') THEN "aborted" ELSE "compile"
  /\ UNCHANGED result

\* one iteration of `while !self.match_cur(TokenEOF) { self.declaration(); }`
Declare ==
  /\ pc = "compile"
  /\ ~check(compiler, "TokenEOF")
  /\ compiler' = declaration(compiler)
  /\ pc' = IF Dead(compiler') THEN "aborted" ELSE "compile"
  /\ UNCHANGED result

\* the loop meets end-of-file: end_compilation and the result
Finish ==
  /\ pc = "compile"
  /\ check(compiler, "TokenEOF")
  /\ LET e == compile_end(compiler)
     IN compiler' = e.c /\ result' = e.v
  /\ pc' = "done"

Next == Declare \/ Finish

InitErrors == InitWith(Programs(ErrorCorpus, MaxDecls))
InitFlow == InitWith(Programs(FlowCorpus, MaxDecls))
InitScopes == InitWith(Programs(ScopeCorpus, MaxDecls))
InitClasses == InitWith(Programs(ClassCorpus, MaxDecls))
InitImports == InitWith(Programs(ImportCorpus, MaxDecls))
InitExprs == InitWith(Programs(ExprCorpus, MaxDecls))
InitArity == InitWith(Programs(ArityCorpus, MaxDecls))

InitTokens ==
  \E code \in TokenStrings(MaxTokens) :
    /\ compiler = Compiler_new(code, FALSE)
    /\ result = None
    /\ pc = "compile"

Init == InitErrors \/ InitFlow \/ InitScopes \/ InitClasses \/ InitImports
          \/ InitExprs \/ InitArity \/ InitTokens

Spec == Init /\ [][Next]_vars
SpecErrors == InitErrors /\ [][Next]_vars
SpecFlow == InitFlow /\ [][Next]_vars
SpecScopes == InitScopes /\ [][Next]_vars
SpecClasses == InitClasses /\ [][Next]_vars
SpecImports == InitImports /\ [][Next]_vars
SpecExprs == InitExprs /\ [][Next]_vars
SpecArity == InitArity /\ [][Next]_vars
SpecTokens == InitTokens /\ [][Next]_vars

\* ------------------------------------------------------------- properties
\* the result compile() returned, once it has returned one
Returned == pc = "done" /\ result # None

\* C1: compile() returns a result exactly when error() was never called
\* during the run: had_error is set by the first call and is never cleared
\* (it is set exactly when there has been a call), the loop runs until the
\* end-of-file token has been consumed even after errors, and the result is
\* None exactly when had_error is set.
C1_ResultIffNoError ==
  /\ compiler.had_error <=> compiler.h.error_calls > 0
  /\ pc = "done" =>
       /\ previous(compiler).token_type = "TokenEOF"
       /\ (result = None) <=> (compiler.h.error_calls > 0)

\* one call of error(), declarations compiled after it, and no result
C1_ErrorThenMore ==
  /\ pc = "done"
  /\ result = None
  /\ compiler.h.error_calls = 1
  /\ compiler.h.after_error >= 1

\* the code of every function of a result
ResultCode(f) == At(Unwrap(result).functions, f).chunk.code

\* the jumps of `code` are patched and land inside the chunk: a forward jump
\* at index i with offset k has 0 <= i + k <= Len(code), a loop 0 <= i - k
JumpsSound(code) ==
  \A n \in 1..Len(code) :
    LET i == n - 1
        op == code[n].op_code
    IN /\ op[1] \in {"OpJump", "OpJumpIfFalse"} =>
            /\ op[2] # UsizeMax
            /\ 0 <= i + op[2]
            /\ i + op[2] <= Len(code)
       /\ op[1] = "OpLoop" => 0 <= i - op[2]

\* C2: in the bytecode of a successful compilation no jump keeps the
\* placeholder offset, every OpJump/OpJumpIfFalse offset is the distance from
\* the jump to the chunk's length at patch time, so it lands within the chunk
\* that holds it, and every OpLoop goes back to an index of that chunk; this
\* holds when functions are compiled between a jump and its patch.
C2_JumpsPatchedInChunk ==
  Returned =>
    \A f \in 0..(Len(Unwrap(result).functions) - 1) : JumpsSound(ResultCode(f))

\* a result whose script jumps over the code that makes a nested function
C2_JumpOverFunction ==
  /\ Returned
  /\ \E n \in 1..Len(ResultCode(0)) :
       LET op == ResultCode(0)[n].op_code
       IN /\ op[1] = "OpJumpIfFalse"
          /\ \E j \in (n + 1)..(n - 1 + op[2]) :
               LET inner == ResultCode(0)[j].op_code
               IN /\ inner[1] = "OpConstant"
                  /\ At(Unwrap(result).constants, inner[2])[1] = "LoxFunction"
          /\ \E f \in 1..(Len(Unwrap(result).functions) - 1) :
               \E m \in 1..Len(ResultCode(f)) :
                 ResultCode(f)[m].op_code[1] = "OpJumpIfFalse"

\* C3: for every block and for-loop scope, the OpPop instructions emitted
\* when the scope ends are as many as the locals that var, fun and class
\* declarations declared in that scope.
C3_PopsEqualDeclared ==
  \A i \in 1..Len(compiler.h.closed) :
    compiler.h.closed[i].pops = compiler.h.closed[i].declared

\* error() reports nothing while panic_mode is set, so at most one
\* diagnostic is written between two runs of synchronize; and synchronize
\* returns only with a semicolon as the previous token, or with end-of-file
\* or one of class/fun/var/for/if/while/print/return as the current token
SynchronizeStopsAtBoundary ==
  /\ \A i \in 1..Len(compiler.h.synced) :
       \/ compiler.h.synced[i][1] = "TokenSemicolon"
       \/ compiler.h.synced[i][2] \in SyncKeywords \cup {"TokenEOF"}
  /\ pc # "aborted" => Len(compiler.stderr) <= Len(compiler.h.synced) + 1

\* C9: panic-mode recovery.  While panic_mode is set a call of error() is a
\* no-op; panic_mode is cleared by the synchronize at the end of every
\* declaration that left it set, so no declaration begins with panic_mode
\* set; and synchronize returns only at a statement boundary.
C9_PanicClearedPerDeclaration ==
  /\ ~compiler.h.panic_at_decl
  /\ SynchronizeStopsAtBoundary

\* the code of function f of the compiler's table
CodeOf(f) == At(compiler.functions, f).chunk.code

\* the last two instructions of `code` are `first`, OpReturn
EndsWith(code, first) ==
  /\ Len(code) >= 2
  /\ code[Len(code) - 1].op_code = first
  /\ code[Len(code)].op_code = <<"OpReturn">>

\* what emit_return appends in a function of type fn_type
ImplicitReturn(fn_type) ==
  IF fn_type = "Initializer" THEN <<"OpGetLocal", 0>> ELSE <<"OpNil">>

\* C10: every finished FunctionChunk ends with OpReturn.  For a function,
\* method or initializer whose body (body_len instructions) does not end
\* with OpReturn, end_child appends two instructions, OpGetLocal(0), OpReturn
\* for an Initializer and OpNil, OpReturn otherwise, and appends nothing when
\* the body ends with OpReturn; the script ends with OpNil, OpReturn once
\* compile has returned.
C10_ChunksEndWithReturn ==
  /\ \A n \in 1..Len(compiler.h.popped) :
       LET e == compiler.h.popped[n]
           code == CodeOf(e.function)
           fn_type == At(compiler.functions, e.function).fn_type
       IN /\ Len(code) > 0
          /\ code[Len(code)].op_code = <<"OpReturn">>
          /\ IF e.body_len = 0 \/ code[e.body_len].op_code # <<"OpReturn">>
             THEN /\ Len(code) = e.body_len + 2
                  /\ EndsWith(code, ImplicitReturn(fn_type))
             ELSE Len(code) = e.body_len
  /\ pc = "done" =>
       /\ EndsWith(CodeOf(0), <<"OpNil">>)
       /\ \A f \in 0..(Len(compiler.functions) - 1) :
            Len(CodeOf(f)) > 0 /\ Last(CodeOf(f)).op_code = <<"OpReturn">>

\* a result with an initializer and a method that got the implicit return
\* and a function whose body ended with its own return
C10_ImplicitAndExplicit ==
  /\ Returned
  /\ \E n \in 1..Len(compiler.h.popped) :
       LET e == compiler.h.popped[n]
       IN /\ At(compiler.functions, e.function).fn_type = "Initializer"
          /\ Len(CodeOf(e.function)) = e.body_len + 2
  /\ \E n \in 1..Len(compiler.h.popped) :
       LET e == compiler.h.popped[n]
       IN /\ At(compiler.functions, e.function).fn_type = "Method"
          /\ Len(CodeOf(e.function)) = e.body_len + 2
  /\ \E n \in 1..Len(compiler.h.popped) :
       LET e == compiler.h.popped[n]
       IN /\ e.body_len > 0
          /\ Len(CodeOf(e.function)) = e.body_len

DuplicateMessage == "Variable with this name already declared in this scope"

\* C4: a declaration of a name that the open local scope already declares
\* is answered by error() with the duplicate-declaration message, and
\* compile returns None; every other declaration (the same name in a sibling
\* scope, in an inner scope shadowing an outer one, or at global level) is
\* accepted by declare_variable without a call of error().
C4_DuplicateDeclaration ==
  /\ \A n \in 1..Len(compiler.h.declarations) :
       LET d == compiler.h.declarations[n]
       IN /\ (d.errors > 0) <=> d.dup
          /\ d.dup /\ ~d.muted => d.said = DuplicateMessage
  /\ pc = "done"
       /\ (\E n \in 1..Len(compiler.h.declarations) : compiler.h.declarations[n].dup)
       => result = None

\* a name declared twice and accepted, a duplicate that is rejected, no result
C4_AcceptedAndRejected ==
  /\ pc = "done"
  /\ result = None
  /\ \E n \in 1..Len(compiler.h.declarations) :
       /\ compiler.h.declarations[n].dup
       /\ compiler.h.declarations[n].errors = 1
  /\ \E i, j \in 1..Len(compiler.h.declarations) :
       /\ i < j
       /\ compiler.h.declarations[i].name = compiler.h.declarations[j].name
       /\ compiler.h.declarations[j].local
       /\ ~compiler.h.declarations[j].dup
       /\ compiler.h.declarations[j].errors = 0

SetMax(S) == CHOOSE x \in S : \A y \in S : y <= x

\* the definitions of method `name` in the body of class k, as positions in
\* the history of method definitions
OwnDefinitions(k, name) ==
  {n \in 1..Len(compiler.h.defs) :
     compiler.h.defs[n].class = k /\ compiler.h.defs[n].name_index = name}

RECURSIVE MostDerived(_, _)
\* the function a walk up the class chain from class k finds for `name`:
\* the last definition in the nearest class that defines it; a class that
\* came with an import is taken with the table it came with
MostDerived(k, name) ==
  LET class == At(compiler.classes, k)
      own == OwnDefinitions(k, name)
  IN IF \A n \in 1..Len(compiler.h.own_classes) : compiler.h.own_classes[n] # k
     THEN IF name \in DOMAIN class.methods
          THEN Some(class.methods[name]) ELSE None
     ELSE IF own # {} THEN Some(compiler.h.defs[SetMax(own)].function)
     ELSE IF IsSome(class.superclass) /\ Unwrap(class.superclass) < k
     THEN MostDerived(Unwrap(class.superclass), name)
     ELSE None

\* C5: once the declarations are compiled without error, the method table
\* of every class maps exactly the method names defined in the class or in
\* an ancestor of any depth, each to the function index of its most-derived
\* definition.
C5_MethodTableFlattened ==
  pc # "aborted" /\ compiler.h.error_calls = 0 =>
    \A n \in 1..Len(compiler.h.own_classes) :
      \A name \in 0..(Len(compiler.identifier_constants) - 1) :
        LET k == compiler.h.own_classes[n]
            methods == At(compiler.classes, k).methods
            expected == MostDerived(k, name)
        IN /\ name \in DOMAIN methods <=> IsSome(expected)
           /\ name \in DOMAIN methods => methods[name] = Unwrap(expected)

\* the `class X < Y` clauses that raised an error
RejectedSuperclass ==
  {n \in 1..Len(compiler.h.class_decls) : compiler.h.class_decls[n].errors > 0}

\* C6: `class X < Y` raises a compile error, and compile returns None, when
\* Y is X itself or no class named Y was declared earlier; otherwise no
\* error is raised and X.superclass is the index of the most recently
\* declared class named Y.
C6_SuperclassResolution ==
  /\ \A n \in 1..Len(compiler.h.class_decls) :
       LET e == compiler.h.class_decls[n]
           earlier == {k \in 0..(e.class - 1) :
                         At(compiler.classes, k).name = e.superclass_name}
       IN IF e.superclass_name = e.name \/ earlier = {}
          THEN e.errors > 0
          ELSE /\ e.errors = 0
               /\ At(compiler.classes, e.class).superclass = Some(SetMax(earlier))
  /\ pc = "done" /\ RejectedSuperclass # {} => result = None

\* a result in which a class inherits from the later of two classes of one
\* name
C6_LatestOfTwo ==
  /\ Returned
  /\ \E n \in 1..Len(compiler.h.class_decls) :
       LET e == compiler.h.class_decls[n]
       IN \E j, k \in 0..(e.class - 1) :
            /\ j < k
            /\ At(compiler.classes, j).name = e.superclass_name
            /\ At(compiler.classes, k).name = e.superclass_name
            /\ At(compiler.classes, e.class).superclass = Some(k)

\* C7: the upvalue descriptors popped from the resolver when a function
\* body ends are attached to its FunctionChunk exactly when there are any;
\* a descriptor that is not enclosing-local refers to a descriptor of the
\* enclosing function by its position, and a function holds one descriptor
\* per captured variable.
C7_UpvalueDescriptors ==
  \A n \in 1..Len(compiler.h.popped) :
    LET e == compiler.h.popped[n]
    IN /\ At(compiler.functions, e.function).upvalues =
            IF Len(e.upvalues) > 0 THEN Some(e.upvalues) ELSE None
       /\ \A u, v \in 1..Len(e.upvalues) :
            u # v => e.upvalues[u] # e.upvalues[v]
       /\ pc # "aborted" =>
            \A u \in 1..Len(e.upvalues) :
              ~e.upvalues[u].is_local =>
                \E m \in 1..Len(compiler.h.popped) :
                  /\ compiler.h.popped[m].function = e.parent
                  /\ e.upvalues[u].index < Len(compiler.h.popped[m].upvalues)

\* fun o() { var x = 1; fun m() { fun i() { return x; } } } compiled to a
\* result: m holds one enclosing-local descriptor for slot 1, i one
\* descriptor for upvalue 0 of m, o none
C7_TwoLevels ==
  /\ Returned
  /\ \E o, m, i \in 1..Len(compiler.h.popped) :
       LET eo == compiler.h.popped[o]
           em == compiler.h.popped[m]
           ei == compiler.h.popped[i]
       IN /\ ei.parent = em.function
          /\ em.parent = eo.function
          /\ At(compiler.functions, ei.function).upvalues =
               Some(<<[is_local |-> FALSE, index |-> 0]>>)
          /\ At(compiler.functions, em.function).upvalues =
               Some(<<[is_local |-> TRUE, index |-> 1]>>)
          /\ At(compiler.functions, eo.function).upvalues = None

OwnInitializerMessage == "Cannot read local variable in its own initializer"

\* C8: a read of a local inside its own `var` initializer is answered by
\* error() with the own-initializer message, emits no instruction, and
\* compile returns None; any other reference is not rejected by
\* resolve_local and emits its get or set instruction, among them the
\* reference to a function or class name inside its own body.
C8_OwnInitializerRead ==
  /\ \A n \in 1..Len(compiler.h.reads) :
       LET r == compiler.h.reads[n]
       IN /\ r.flagged <=> r.own
          /\ r.own => /\ r.errors > 0
                      /\ r.emitted = 0
                      /\ ~r.muted => r.said = OwnInitializerMessage
          /\ ~r.own => r.emitted >= 1
  /\ pc = "done"
       /\ (\E n \in 1..Len(compiler.h.reads) : compiler.h.reads[n].own)
       => result = None

\* { fun f() { return f; } } { var a = a; }: the self-reference of f is
\* compiled, the read of a is rejected
C8_RejectedAndSelfReference ==
  /\ pc = "done"
  /\ result = None
  /\ \E n \in 1..Len(compiler.h.reads) :
       /\ compiler.h.reads[n].own
       /\ compiler.h.reads[n].said = OwnInitializerMessage
  /\ \E n \in 1..Len(compiler.h.reads) :
       /\ compiler.h.reads[n].name = "f"
       /\ ~compiler.h.reads[n].flagged
       /\ compiler.h.reads[n].errors = 0

\* ------------------------------------------------------------- imports
\* the part of s from index `from` (0-based) of length n
Slice(s, from, n) == SubSeq(s, from + 1, from + n)

\* the names of an imported unit as the importer registers them
ImportedNames(r) ==
  [i \in 1..Len(r.unit.identifier_constants) |->
     r.name \o "::" \o r.unit.identifier_constants[i]]

\* the tables of the importer as import r left them: what was there before
\* comes first and is what it was, what the unit brought follows unchanged
AppendedTables(r) ==
  /\ Slice(compiler.identifier_constants, 0, Len(r.before.identifier_constants))
       = r.before.identifier_constants
  /\ Slice(compiler.identifier_constants, Len(r.before.identifier_constants),
           Len(r.unit.identifier_constants)) = ImportedNames(r)
  /\ Slice(compiler.constants, 0, Len(r.before.constants)) = r.before.constants
  /\ Slice(compiler.constants, Len(r.before.constants), Len(r.unit.constants))
       = r.unit.constants
  /\ Slice(compiler.classes, Len(r.before.classes), Len(r.unit.classes))
       = r.unit.classes
  /\ Slice(compiler.functions, Len(r.before.functions), Len(r.unit.functions))
       = r.unit.functions
  /\ \A i \in 1..Len(r.before.classes) :
       compiler.classes[i].name = r.before.classes[i].name
  /\ \A i \in 1..Len(r.before.functions) :
       /\ compiler.functions[i].name = r.before.functions[i].name
       /\ compiler.functions[i].fn_type = r.before.functions[i].fn_type
       /\ Len(compiler.functions[i].chunk.code)
            >= Len(r.before.functions[i].chunk.code)

\* import r emitted one OpDefineGlobal per imported name, in the unit's pool
\* order, each naming the prefixed name, and nothing else
DefinedGlobals(r) ==
  LET code == CodeOf(r.function)
      names == ImportedNames(r)
  IN /\ Len(code) >= r.code + Len(names)
     /\ \A i \in 1..Len(names) :
          /\ code[r.code + i].op_code[1] = "OpDefineGlobal"
          /\ At(compiler.identifier_constants, code[r.code + i].op_code[2])
               = names[i]

\* C11: an import merges the imported unit as a pure append.  For every
\* import merged so far: the identifier pool holds, after what it held
\* before, the unit's names each prefixed with `<module>::`; one
\* OpDefineGlobal per imported name was emitted in pool order; the unit's
\* constants, functions and classes follow the importer's earlier entries
\* with their contents unchanged (nothing is rebased), and every index the
\* importer held before denotes the entry it denoted.
C11_ImportAppends ==
  \A n \in 1..Len(compiler.h.imports) :
    /\ AppendedTables(compiler.h.imports[n])
    /\ DefinedGlobals(compiler.h.imports[n])

\* a returned result of an importer that had a constant, a name and a
\* function of its own before it imported a unit with a function
C11_ImportAfterOwnEntries ==
  /\ Returned
  /\ \E n \in 1..Len(compiler.h.imports) :
       LET r == compiler.h.imports[n]
       IN /\ Len(r.before.constants) > 0
          /\ Len(r.before.identifier_constants) > 0
          /\ Len(r.before.functions) > 1
          /\ \E k \in 1..Len(r.unit.constants) :
               r.unit.constants[k][1] = "LoxFunction"

\* ------------------------------------------------------- assignments
\* the source text holds `piece`
Contains(source, piece) ==
  \E i \in 0..(Len(source) - Len(piece)) :
    SubSeq(source, i + 1, i + Len(piece)) = piece

\* the source text compile() was given
SourceText == compiler.scanner.source

\* assignments whose left-hand side is a call of a global function
CallTargets == {SrcCallAssign}

\* assignments whose left-hand side is another non-assignable target: a
\* parenthesised name, a sum, a negation, `this`, a call of a local
OtherTargets ==
  {SrcGroupAssign, SrcSumAssign, SrcNegAssign, SrcThisAssign,
   SrcLocalCallAssign}

\* compile() has returned None after a call of error()
Rejected == pc = "done" /\ result = None /\ compiler.h.error_calls > 0

\* C12: an assignment whose left-hand side is not an assignable target is a
\* compile error: when the source holds `<target> = <expr>;` with a call of
\* a global function, a parenthesised name, a sum, a negation, `this` or a
\* call of a local as <target>, error() is raised and compile returns None.
C12_NonAssignableRejected ==
  (pc = "done" /\ \E s \in CallTargets \cup OtherTargets : Contains(SourceText, s))
    => Rejected

\* the same for the targets other than a call of a global function
OtherTargetsRejected ==
  (pc = "done" /\ \E s \in OtherTargets : Contains(SourceText, s)) => Rejected

\* ----------------------------------------------------------- determinism
\* the entries of s in the order of their first occurrence
FirstOccurrences(s) ==
  LET F[i \in 0..Len(s)] ==
        IF i = 0 THEN << >>
        ELSE IF \E j \in 1..Len(F[i - 1]) : F[i - 1][j] = s[i] THEN F[i - 1]
        ELSE Append(F[i - 1], s[i])
  IN F[Len(s)]

SumOf(s) ==
  LET F[i \in 0..Len(s)] == IF i = 0 THEN 0 ELSE F[i - 1] + s[i]
  IN F[Len(s)]

\* how many calls of error() gave `message`
Raised(message) ==
  Cardinality({i \in 1..Len(compiler.h.raised) : compiler.h.raised[i] = message})

\* the argument count of an instruction that calls, 0 for any other
ArgCount(op) ==
  CASE op[1] = "OpCall" -> op[2]
    [] op[1] \in {"OpInvoke", "OpCallGlobal"} -> op[3]
    [] OTHER -> 0

\* the argument counts of the calling instructions of `functions`
ArgCounts(functions) ==
  UNION {{ArgCount(functions[f].chunk.code[i].op_code) :
            i \in 1..Len(functions[f].chunk.code)} : f \in 1..Len(functions)}

\* C14: a function or method with up to 255 parameters and a call with up
\* to 255 arguments compile without an arity error; the 256th parameter
\* raises 'Cannot have more than 255 parameters' and the 256th argument
\* 'Cannot have more than 255 arguments': the parameter errors raised are
\* one per parameter past the 255th, the argument errors one per call of
\* more than 255 arguments, and no returned result holds a function of
\* arity above 255 or a call, invoke or call-global of more than 255 arguments.
C14_ArityLimits ==
  /\ Raised("Cannot have more than 255 parameters")
       = SumOf([f \in 1..Len(compiler.functions) |->
                 IF compiler.functions[f].arity > ArityLimit
                 THEN compiler.functions[f].arity - ArityLimit ELSE 0])
  /\ Raised("Cannot have more than 255 arguments")
       = SumOf([f \in 1..Len(compiler.functions) |->
                 Cardinality({i \in 1..Len(compiler.functions[f].chunk.code) :
                   ArgCount(compiler.functions[f].chunk.code[i].op_code)
                     > ArityLimit})])
  /\ Returned =>
       /\ \A f \in 1..Len(Unwrap(result).functions) :
            Unwrap(result).functions[f].arity <= ArityLimit
       /\ \A n \in ArgCounts(Unwrap(result).functions) : n <= ArityLimit

\* a returned result with a function of 255 parameters and a call of 255
\* arguments
C14_AtTheLimit ==
  /\ Returned
  /\ \E f \in 1..Len(Unwrap(result).functions) :
       Unwrap(result).functions[f].arity = ArityLimit
  /\ ArityLimit \in ArgCounts(Unwrap(result).functions)

\* ---------------------------------------------------------------- pools
\* no entry of s is at two positions
Distinct(s) == \A i, j \in 1..Len(s) : s[i] = s[j] => i = j

\* C15: the identifier-name pool never holds the same string at two
\* positions, after any sequence of declarations of one unit, units with
\* one or more imports (a repeated import of a module too) included.
C15_IdentifierPoolDistinct == Distinct(compiler.identifier_constants)

\* the same for the units that have merged no import
IdentifierPoolDistinctWithoutImport ==
  Len(compiler.h.imports) = 0 => Distinct(compiler.identifier_constants)

\* C16: the constant pool never holds two equal values, after any sequence
\* of literal emissions and import statements of one unit.
C16_ConstantPoolDistinct == Distinct(compiler.constants)

\* the same for the units that have merged no import
ConstantPoolDistinctWithoutImport ==
  Len(compiler.h.imports) = 0 => Distinct(compiler.constants)

\* ------------------------------------------------------------- closures
\* the upvalue list of function f of the compiler's table is set
UpvaluesSet(f) == At(compiler.functions, f).upvalues # None

\* s, a call of function() for a free function, emitted at the definition
\* site OpConstant(LoxFunction(index)), followed by OpClosure exactly when
\* the function has upvalues
FreeFunctionSite(s) ==
  /\ Len(s.emitted) = (IF UpvaluesSet(s.function) THEN 2 ELSE 1)
  /\ s.emitted[1].op_code[1] = "OpConstant"
  /\ At(compiler.constants, s.emitted[1].op_code[2])
       = <<"LoxFunction", s.function>>
  /\ UpvaluesSet(s.function) => s.emitted[2].op_code = <<"OpClosure">>

\* s, a call of function() for a method or an initializer, emitted nothing
\* in the enclosing chunk and the function is in a class's method table
MethodSite(s) ==
  /\ s.emitted = << >>
  /\ \E k \in 1..Len(compiler.classes) :
       \E n \in DOMAIN compiler.classes[k].methods :
         compiler.classes[k].methods[n] = s.function

\* every function() so far emitted what its kind of function requires
SitesAsDefined ==
  \A n \in 1..Len(compiler.h.sites) :
    IF compiler.h.sites[n].fn_type \in {"Method", "Initializer"}
    THEN MethodSite(compiler.h.sites[n])
    ELSE FreeFunctionSite(compiler.h.sites[n])

\* C17: every FunctionChunk whose upvalue list is set is bound by an
\* OpClosure: a free function's definition site emits
\* OpConstant(LoxFunction(index)), followed by OpClosure exactly when the
\* function has upvalues; a Method or Initializer emits nothing in the
\* enclosing chunk and is only registered in the class's method table.
C17_UpvaluesBoundByClosure ==
  /\ SitesAsDefined
  /\ \A n \in 1..Len(compiler.h.sites) :
       UpvaluesSet(compiler.h.sites[n].function) =>
         /\ Len(compiler.h.sites[n].emitted) > 0
         /\ Last(compiler.h.sites[n].emitted).op_code = <<"OpClosure">>

\* --------------------------------------------------- variable references
\* the instruction of reference r matches the way its name resolved
MatchesStorage(r) ==
  CASE r.by = "local" ->
         r.op \in {<<"OpGetLocal", r.index>>, <<"OpSetLocal", r.index>>}
    [] r.by = "upvalue" ->
         r.op \in {<<"OpGetUpvalue", r.index>>, <<"OpSetUpvalue", r.index>>}
    [] OTHER ->
         /\ r.op[1] \in {"OpGetGlobal", "OpSetGlobal", "OpCallGlobal"}
         /\ r.op[2] = r.index
         /\ At(compiler.identifier_constants, r.index) = r.name

\* the name of reference r is composite: `module::member`
Composite(r) == \E i \in 1..(Len(r.name) - 1) : SubSeq(r.name, i, i + 1) = "::"

\* C18: the instruction emitted for a variable reference matches the
\* storage class under which the name resolved: OpGetLocal/OpSetLocal with
\* the slot for a name resolve_local resolved, OpGetUpvalue/OpSetUpvalue with
\* the upvalue index for a name, bare or composite, resolve_upvalue resolved,
\* a global instruction with the pool index for every other name; so an
\* upvalue index is never the operand of a local-slot instruction.
C18_InstructionMatchesStorage ==
  \A n \in 1..Len(compiler.h.refs) : MatchesStorage(compiler.h.refs[n])

\* the same for the references by a bare name
BareNamesMatchStorage ==
  \A n \in 1..Len(compiler.h.refs) :
    ~Composite(compiler.h.refs[n]) => MatchesStorage(compiler.h.refs[n])

\* ------------------------------------------------------ property access
\* the instruction a property access p must end with
PropertyOp(p) ==
  IF p.can_assign /\ p.next = "TokenEqual" THEN "OpSetProperty"
  ELSE IF p.next = "TokenLeftParen" THEN "OpInvoke"
  ELSE "OpGetProperty"

\* the property instructions among `code` that name the pool index i
PropertyOps(code, i) ==
  {n \in 1..Len(code) :
     /\ code[n].op_code[1] \in {"OpSetProperty", "OpInvoke", "OpGetProperty"}
     /\ code[n].op_code[2] = i}

\* C19: a property access `.name` emits exactly one of three instructions,
\* each with the pool index of the name: OpSetProperty, after the code of the
\* right-hand side, when the access is in assignable position and `=`
\* follows; otherwise OpInvoke when `(` follows; otherwise OpGetProperty.
\* In a non-assignable position a following `=` never yields OpSetProperty.
C19_PropertyInstruction ==
  \A n \in 1..Len(compiler.h.props) :
    LET p == compiler.h.props[n]
    IN /\ Len(p.emitted) > 0
       /\ Last(p.emitted).op_code[1] = PropertyOp(p)
       /\ Last(p.emitted).op_code[2] = p.name_index
       /\ At(compiler.identifier_constants, p.name_index) = p.name
       /\ (p.next # "TokenEqual" /\ p.next # "TokenLeftParen")
            => Len(p.emitted) = 1
       /\ ~p.can_assign => "OpSetProperty" \notin
            {p.emitted[i].op_code[1] : i \in 1..Len(p.emitted)}

\* a returned result with a set after its right-hand side, an invoke and a
\* get
C19_ThreeForms ==
  /\ Returned
  /\ {"OpSetProperty", "OpInvoke", "OpGetProperty"} \subseteq
       {ResultCode(0)[i].op_code[1] : i \in 1..Len(ResultCode(0))}
  /\ \E n \in 1..Len(compiler.h.props) :
       /\ PropertyOp(compiler.h.props[n]) = "OpSetProperty"
       /\ Len(compiler.h.props[n].emitted) > 1

\* ------------------------------------------------------------------ calls
\* r, a reference by a bare name that `(` follows, compiled as its
\* resolution requires: one OpCallGlobal with the pool index when the name
\* is neither a local nor an upvalue; else the get instruction, then (after
\* the arguments) an OpCall in the same chunk
CallCompiled(r) ==
  IF r.by = "global"
  THEN /\ r.op[1] = "OpCallGlobal"
       /\ r.op[2] = r.index
  ELSE /\ r.op \in {<<"OpGetLocal", r.index>>, <<"OpGetUpvalue", r.index>>}
       /\ \E i \in (r.at + 1)..Len(CodeOf(r.function)) :
            CodeOf(r.function)[i].op_code[1] = "OpCall"

\* C20: a bare identifier immediately followed by `(` compiles to a single
\* OpCallGlobal(name index, argument count) exactly when the name resolves
\* neither as a local nor as an upvalue; when it resolves as a local or an
\* upvalue the call compiles to the get instruction, the arguments, then
\* OpCall, and no OpCallGlobal.
C20_CallGlobalFusion ==
  \A n \in 1..Len(compiler.h.refs) :
    compiler.h.refs[n].called => CallCompiled(compiler.h.refs[n])

\* the same for the programs that assign to no call of a global
CallsCompiledUnlessAssigned ==
  ~Contains(SourceText, SrcCallAssign) => C20_CallGlobalFusion

\* ------------------------------------------------------------------ super
\* s, a `super.name` in a class that has a superclass, compiled as three
\* instructions: the constant LoxClass(superclass), the get of `this`, and
\* OpGetSuper with the pool index of the name
SuperCompiled(s) ==
  /\ Len(s.emitted) = 3
  /\ s.emitted[1].op_code[1] = "OpConstant"
  /\ At(compiler.constants, s.emitted[1].op_code[2])
       = <<"LoxClass", Unwrap(s.superclass)>>
  /\ At(compiler.classes, Unwrap(s.class)).superclass = s.superclass
  /\ s.emitted[2].op_code[1] \in {"OpGetLocal", "OpGetUpvalue"}
  /\ s.emitted[2].op_code[1] = "OpGetLocal" => s.emitted[2].op_code[2] = 0
  /\ s.emitted[3].op_code = <<"OpGetSuper", s.name_index>>
  /\ At(compiler.identifier_constants, s.name_index) = s.name

\* the message super_ hands to error() for s, "" when it has none
SuperMessage(s) ==
  IF s.class = None THEN "Cannot use keyword 'super' outside of a class"
  ELSE IF s.superclass = None
  THEN "Cannot use keyword 'super' in a class which does not inherit a class"
  ELSE ""

\* C21: inside a class that has a superclass, `super.name` emits, in this
\* order, OpConstant of the LoxClass value holding the class's recorded
\* superclass index, the get instruction for `this`, and OpGetSuper with the
\* identifier-pool index of the name; `super` outside any class, or inside a
\* class with no superclass, raises a compile error.
C21_SuperAccess ==
  \A n \in 1..Len(compiler.h.supers) :
    LET s == compiler.h.supers[n]
    IN IF SuperMessage(s) # ""
       THEN /\ Len(s.raised) > 0
            /\ s.raised[1] = SuperMessage(s)
            /\ compiler.had_error
       ELSE s.well_formed => SuperCompiled(s) /\ s.raised = << >>

\* a returned result with `super.name` compiled in a method, where `this` is
\* local 0, and in a function of a method, where it is an upvalue
C21_SuperInMethodAndClosure ==
  /\ Returned
  /\ \E n \in 1..Len(compiler.h.supers) :
       /\ SuperCompiled(compiler.h.supers[n])
       /\ compiler.h.supers[n].emitted[2].op_code = <<"OpGetLocal", 0>>
  /\ \E n \in 1..Len(compiler.h.supers) :
       /\ SuperCompiled(compiler.h.supers[n])
       /\ compiler.h.supers[n].emitted[2].op_code[1] = "OpGetUpvalue"

\* `super` rejected outside a class and in a class without superclass
SuperRejected ==
  /\ \E n \in 1..Len(compiler.h.supers) : compiler.h.supers[n].class = None
  /\ \E n \in 1..Len(compiler.h.supers) :
       /\ compiler.h.supers[n].class # None
       /\ compiler.h.supers[n].superclass = None

\* ------------------------------------------------------------------- this
ThisMessage == "Cannot use keyword 'this' outside of a class"

\* C22: `this` raises 'Cannot use keyword 'this' outside of a class' exactly
\* when the reference is not lexically inside a class body: current_class is
\* set on entering a class declaration and restored to its previous value
\* when the class body ends, so `this` after a class declaration at top
\* level is an error, and `this` in an outer class's method that follows a
\* nested class declaration is accepted.
C22_ThisOutsideClass ==
  /\ \A n \in 1..Len(compiler.h.thises) :
       LET t == compiler.h.thises[n]
       IN /\ t.class = t.innermost
          /\ (\E i \in 1..Len(t.raised) : t.raised[i] = ThisMessage) <=> ~t.inside
  /\ compiler.h.in_classes = << >>
  /\ compiler.current_class = None
  /\ (\E n \in 1..Len(compiler.h.thises) : ~compiler.h.thises[n].inside)
       => compiler.had_error

\* `this` accepted in the outer class's method after a nested class
\* declaration, then rejected at top level after the class declarations
C22_AfterInnerAndAfterClass ==
  /\ \E n \in 1..Len(compiler.h.thises) :
       /\ compiler.h.thises[n].inside
       /\ compiler.h.thises[n].declared > 1
       /\ compiler.h.thises[n].class = Some(0)
       /\ compiler.h.thises[n].raised = << >>
  /\ \E n \in 1..Len(compiler.h.thises) :
       /\ ~compiler.h.thises[n].inside
       /\ compiler.h.thises[n].declared > 1
       /\ compiler.h.thises[n].raised = <<ThisMessage>>

\* ------------------------------------------------------------ termination
\* the tokens compile() has still to take: those not yet scanned and the
\* current one, end-of-file included
Remaining ==
  IF check(compiler, "TokenEOF") THEN 1
  ELSE Len(compiler.scanner.source) + 2 - Len(compiler.tokens)

\* C23: compilation of a unit that contains no import statement terminates
\* on every finite token sequence ending in end-of-file, well-formed or
\* malformed: every call of declaration(), nested ones included, consumes at
\* least one token, so every iteration of the loop of compile() leaves fewer
\* tokens to take, and at end-of-file compile() returns; the loops inside a
\* declaration (block, class body, parameter list, argument list,
\* synchronize) have returned whenever the declaration has.
C23_Terminates ==
  /\ [](~compiler.h.stalled)
  /\ [](pc = "compile" => Remaining >= 1)
  /\ [][pc = "compile" =>
          \/ pc' \in {"done", "aborted"}
          \/ pc' = "compile" /\ Remaining' < Remaining]_vars

\* compile() has returned from a sequence that ends inside a parameter list
\* inside a block
C23_EndOfFileInLoops ==
  /\ pc = "done"
  /\ result = None
  /\ compiler.scanner.source = <<"{", "fun", "a", "(">>
  /\ previous(compiler).token_type = "TokenEOF"

\* ----------------------------------------------------------- jump targets
\* every forward jump of `code` lands on an instruction of `code`
JumpsLand(code) ==
  \A n \in 1..Len(code) :
    code[n].op_code[1] \in {"OpJump", "OpJumpIfFalse"}
      => (n - 1) + code[n].op_code[2] < Len(code)

\* C24: in every finished FunctionChunk of a returned result, every forward
\* jump lands on an existing instruction of its own chunk (target index
\* strictly less than the chunk length), so no execution path runs past the
\* last instruction without reaching an OpReturn; this holds in particular
\* for a function whose body ends with an if-statement whose branch ends in
\* a return.
C24_JumpsLandOnInstruction ==
  Returned =>
    \A f \in 0..(Len(Unwrap(result).functions) - 1) : JumpsLand(ResultCode(f))

\* what holds instead: a forward jump lands on an instruction, or one past
\* the last instruction of a chunk that a branch's own OpReturn ends
JumpsLandOrFollowReturn ==
  Returned =>
    \A f \in 0..(Len(Unwrap(result).functions) - 1) :
      \A n \in 1..Len(ResultCode(f)) :
        ResultCode(f)[n].op_code[1] \in {"OpJump", "OpJumpIfFalse"}
          => \/ (n - 1) + ResultCode(f)[n].op_code[2] < Len(ResultCode(f))
             \/ /\ (n - 1) + ResultCode(f)[n].op_code[2] = Len(ResultCode(f))
                /\ Last(ResultCode(f)).op_code = <<"OpReturn">>

\* C25: function contexts balance.  Every function() that ended, with or
\* without errors inside, ran end_child on the function start_child had
\* entered and came back to the function, the resolver frames and the
\* parent_functions it started from, and what it emits afterwards goes into
\* that function's chunk; between top-level declarations and when compile()
\* has finished, no function() is open, start_child, end_child and
\* resolver.pop were called equally often, parent_functions is empty and
\* current_function is 0, the script
C25_FunctionContextBalanced ==
  /\ \A i \in 1..Len(compiler.h.children) :
       /\ compiler.h.children[i].ended = compiler.h.children[i].function
       /\ compiler.h.children[i].back = compiler.h.children[i].from
       /\ compiler.h.children[i].frames_after = compiler.h.children[i].frames_before
       /\ compiler.h.children[i].parents_after = compiler.h.children[i].parents_before
  /\ Len(compiler.h.sites) = Len(compiler.h.children)
  /\ \A i \in 1..Len(compiler.h.sites) :
       /\ compiler.h.sites[i].function = compiler.h.children[i].function
       /\ compiler.h.sites[i].into = compiler.h.children[i].from
  /\ pc # "aborted" =>
       /\ compiler.h.entered = << >>
       /\ compiler.h.calls.start_child = Len(compiler.h.children)
       /\ compiler.h.calls.end_child = compiler.h.calls.start_child
       /\ compiler.h.calls.pop = compiler.h.calls.start_child
       /\ compiler.parent_functions = << >>
       /\ compiler.current_function = 0
       /\ Len(compiler.resolver.stack) = 1

\* compile() has finished a program in which a function nested in another
\* function ended after an error inside it, and a method ended without one
C25_NestedErredAndClean ==
  /\ pc = "done"
  /\ \E i \in 1..Len(compiler.h.children) :
       /\ compiler.h.children[i].erred
       /\ compiler.h.children[i].from # 0
  /\ \E i \in 1..Len(compiler.h.children) :
       /\ ~compiler.h.children[i].erred
       /\ compiler.h.children[i].fn_type = "Method"

\* the importer is as the import statement met it: its error flag, the
\* tokens it has taken and the imports it has merged are those of use u
LeftAt(u) ==
  /\ pc = "aborted"
  /\ result = None
  /\ compiler.had_error = u.had_error
  /\ Len(compiler.tokens) = u.tokens
  /\ Len(compiler.h.imports) = u.merged

\* C26: an import that fails ends the process.  A module whose compile
\* had an error returned None and the importer's unwrap panicked; a module
\* file that could not be opened or read made the process exit with status
\* 1; in both cases the importer set no error flag, took no further token
\* and merged nothing, and that import statement was its last.  Only a
\* module that compiled without error was merged
C26_ImportErrorAborts ==
  \A i \in 1..Len(compiler.h.uses) :
    /\ compiler.h.uses[i].outcome = "none"
         <=> (compiler.h.uses[i].unit_had_error
                /\ compiler.h.uses[i].outcome \notin {"open", "read", "dead"})
    /\ compiler.h.uses[i].outcome = "none"
         => /\ compiler.abort = "panic"
            /\ i = Len(compiler.h.uses)
            /\ LeftAt(compiler.h.uses[i])
    /\ compiler.h.uses[i].outcome \in {"open", "read"}
         => /\ compiler.abort = "exit1"
            /\ i = Len(compiler.h.uses)
            /\ LeftAt(compiler.h.uses[i])
    /\ compiler.h.uses[i].outcome = "some"
         => /\ Len(compiler.h.imports) > compiler.h.uses[i].merged
            /\ compiler.h.imports[compiler.h.uses[i].merged + 1].name
                 = compiler.h.uses[i].name

\* after a declaration that compiled, an import of a module with a compile
\* error has ended the process by a panic
C26_BrokenModulePanics ==
  /\ pc = "aborted"
  /\ compiler.abort = "panic"
  /\ ~compiler.had_error
  /\ compiler.h.decls = 2
  /\ Len(compiler.h.uses) > 0
  /\ Last(compiler.h.uses).outcome = "none"
  /\ Last(compiler.h.uses).name = "broken"

\* an import of a module whose file cannot be read has ended the process
\* with status 1
ImportUnreadableExits ==
  /\ pc = "aborted"
  /\ compiler.abort = "exit1"
  /\ Len(compiler.h.uses) > 0
  /\ Last(compiler.h.uses).outcome = "read"

\* an import of a module with no file has ended the process with status 1
ImportMissingExits ==
  /\ pc = "aborted"
  /\ compiler.abort = "exit1"
  /\ Len(compiler.h.uses) > 0
  /\ Last(compiler.h.uses).outcome = "open"

\* the messages of return_statement itself among those r raised
ReturnMessages(r) ==
  SelectSeq(r.raised, LAMBDA m :
    m \in {"Cannot return from top-level code",
           "Cannot return a value from an initializer"})

\* C27: return statements.  For every return statement: in script code it
\* raises 'Cannot return from top-level code'; with a value inside an
\* initializer it raises 'Cannot return a value from an initializer'; it
\* raises neither message otherwise; a bare `return;` emits OpGetLocal(0),
\* OpReturn inside an initializer and OpNil, OpReturn in any other function;
\* `return <expr>;` emits the expression's code followed by OpReturn, the
\* only OpReturn it emits, and in a function or method with nothing raised
\* the expression's code is not empty
C27_ReturnStatements ==
  \A i \in 1..Len(compiler.h.returns) :
    /\ ReturnMessages(compiler.h.returns[i]) =
         (IF compiler.h.returns[i].fn_type = "Script"
          THEN <<"Cannot return from top-level code">> ELSE << >>)
         \o (IF compiler.h.returns[i].fn_type = "Initializer"
                 /\ ~compiler.h.returns[i].bare
             THEN <<"Cannot return a value from an initializer">> ELSE << >>)
    /\ compiler.h.returns[i].bare =>
         compiler.h.returns[i].emitted =
           (IF compiler.h.returns[i].fn_type = "Initializer"
            THEN << <<"OpGetLocal", 0>>, <<"OpReturn">> >>
            ELSE << <<"OpNil">>, <<"OpReturn">> >>)
    /\ ~compiler.h.returns[i].bare =>
         /\ Len(compiler.h.returns[i].emitted) >= 1
         /\ Last(compiler.h.returns[i].emitted) = <<"OpReturn">>
         /\ \A n \in 1..(Len(compiler.h.returns[i].emitted) - 1) :
              compiler.h.returns[i].emitted[n] # <<"OpReturn">>
         /\ (compiler.h.returns[i].raised = << >>
               /\ compiler.h.returns[i].fn_type \in {"Function", "Method"})
              => Len(compiler.h.returns[i].emitted) >= 2

\* a returned program with a bare return in an initializer, a bare return
\* in a function nested in it, and a method that returns a value
C27_BareAndValueReturns ==
  /\ Returned
  /\ \E i \in 1..Len(compiler.h.returns) :
       compiler.h.returns[i].fn_type = "Initializer" /\ compiler.h.returns[i].bare
  /\ \E i \in 1..Len(compiler.h.returns) :
       compiler.h.returns[i].fn_type = "Function" /\ compiler.h.returns[i].bare
  /\ \E i \in 1..Len(compiler.h.returns) :
       /\ compiler.h.returns[i].fn_type = "Method"
       /\ ~compiler.h.returns[i].bare
       /\ compiler.h.returns[i].emitted = << <<"OpConstant", 0>>, <<"OpReturn">> >>

\* a value returned from an initializer after a return at top level: both
\* are rejected
ReturnsRejected ==
  /\ pc = "done" /\ result = None
  /\ \E i \in 1..Len(compiler.h.returns) :
       /\ compiler.h.returns[i].fn_type = "Initializer"
       /\ ~compiler.h.returns[i].bare
       /\ compiler.h.returns[i].raised = <<"Cannot return a value from an initializer">>
  /\ \E i \in 1..Len(compiler.h.returns) :
       /\ compiler.h.returns[i].fn_type = "Script"
       /\ "Cannot return from top-level code" = compiler.h.returns[i].raised[1]

====
